---- MODULE Spec2Model ----
(***************************************************************************)
(* Model of the hardware resource and protocol layer of lcd-clock-a-rs:    *)
(*   - the I2C bus arbiter of LcdClockHardware (src/src/hardware.rs),      *)
(*   - the six-panel ST7789VW display driver                               *)
(*     (src/src/drivers/st7789vwx6.rs, legacy src/src/st7789vwx6.rs),      *)
(*   - the WS2812 LED driver and the PIO program it installs               *)
(*     (src/src/drivers/ws2812.rs),                                        *)
(*   - the RGB8 -> RGB565 colour conversion (src/src/misc.rs),             *)
(*   - the clock divider of the LED driver over the whole u32 range,       *)
(*   - the button state machine of the application (src/src/state.rs),     *)
(*   - the debounced buttons (src/src/drivers/buttons.rs),                 *)
(*   - the calendar registers of the DS3231 driver (src/src/ds3231.rs),    *)
(*   - the image converter of the build script (src/build.rs).             *)
(* Option<T> is modelled as a sequence of length 0 (None) or 1 (Some).     *)
(***************************************************************************)
EXTENDS Integers, Sequences, FiniteSets, TLC

VARIABLES
    \* ---- LcdClockHardware (hardware.rs:47-57) ----
    i2c_bus,          \* Option<I2CBusTy>
    rtc,              \* Option<DS3231State>
    humidity_sensor,  \* Option<BME280State>
    stack,            \* transient drivers alive: one frame per with_* call whose operation runs
    init_pc,          \* position of LcdClockHardware::init
    init_ret,         \* Option<result of init>
    ret,              \* Option<record of the with_* call that has just returned>
    last_xfer,        \* Option<the most recent I2C transaction on the wire>
    n_xfer,           \* number of I2C transactions performed so far
    \* ---- ST7789VWx6 (drivers/st7789vwx6.rs:78-86) ----
    csa1, csa2, csa3, \* chip-select lines
    dc,               \* data/command line
    rst_log,          \* levels driven on the reset line by the current operation
    brightness,       \* self.brightness
    bl_duty,          \* PWM duty of the backlight channel
    disp_pc,          \* position of the running display operation
    disp_op,          \* the running / last display operation and its arguments
    panels,           \* init: panels still to be initialised (Display::all iterator)
    todo,             \* SPI writes the running closure still has to issue before its next decision
    iter_rest,        \* set_pixels_iter: bytes the colour iterator has not produced yet
    buf,              \* set_pixels_iter: the 256 byte buffer
    buf_i,            \* set_pixels_iter: the buffer index i
    spi_log,          \* SPI writes of the running / last display operation
    disp_ret,         \* Option<result of the display operation that has just returned>
    \* ---- WS2812 (drivers/ws2812.rs:10-21) and the PIO state machine it programs ----
    led_pc,           \* position of the CPU in the driver: unbuilt, built, failed, idle, display, returned
    led_count,        \* self.led_count
    new_ret,          \* Option<result of the WS2812::new that has just returned>
    sm_started,       \* sm.start() has been executed
    tx_fifo,          \* self.tx: the transmit queue of the state machine
    led_args,         \* display: the arguments r, g, b
    led_word,         \* display: the local `word`
    led_i,            \* display: turns of `for _ in 0..self.led_count` completed
    accepted,         \* words the queue has taken from the running / last display call
    last_write,       \* Option<the most recent tx.write of the running / last display call>
    n_calls,          \* display calls made so far
    pio_pc,           \* state machine: program counter
    pio_x,            \* state machine: scratch register X
    osr,              \* state machine: output shift register
    osr_count,        \* state machine: bits shifted out of the OSR since the last pull
    pin,              \* level of the side-set pin (the LED data line)
    bit_cycles,       \* cycles spent since the state machine was last at wrap_target
    last_bit,         \* Option<the bit cell that has just been completed>
    sent_bits,        \* bits shifted out of the word in the OSR, first to last
    \* ---- ColorRGB8 -> ColorRGB565 -> wire bytes (misc.rs:84-115) ----
    col_rgb8,         \* the ColorRGB8 value converted
    col_rgb565,       \* Option<ColorRGB565 built from it>
    col_be,           \* Option<bytes to_be() gives for it>
    col_built,        \* Option<bytes the build script gives for the one-pixel image of it>
    \* ---- the clock divider of WS2812::new (drivers/ws2812.rs:75-81) ----
    div_clock,        \* clock_freq, a u32 held as <<clock_freq / 256, clock_freq % 256>>
    div_steps,        \* Option<the locals bit_freq, int, rem, frac as u32 values>
    div_ret,          \* Option<int as u16, frac as u8>
    \* ---- State (state.rs:95-116) ----
    mode,             \* self.mode
    last_mode,        \* self.last_mode
    led_strip,        \* self.led_strip: its mode and its transition flag
    state_brightness, \* self.brightness
    transition,       \* self.transition
    is_mode_down,     \* self.is_mode_down
    lr_pressed_while_mode_down,   \* self.lr_pressed_while_mode_down
    time_delta,       \* self.time_delta
    panicked,         \* handle_buttons has reached todo!()
    n_events,         \* handle_buttons calls made so far
    \* ---- Button and Debounce (drivers/buttons.rs:17-23, 61-69) ----
    debounce,         \* Button.pin: the fields integrator, max, output of Debounce
    button_state,     \* Button.state
    button_ret,       \* what the last Button::update returned
    emitted,          \* events Button::update has returned so far, oldest first
    all_low,          \* the pin has read low on every update so far
    n_samples,        \* Button::update calls made so far
    \* ---- DS3231 (ds3231.rs:80-83) and the registers of the chip ----
    ds_regs,          \* the registers Seconds .. Year of the chip, by address
    ds_ret,           \* Option<record of the driver call that has just returned>
    \* ---- MenuOption (state.rs:33-64) and LedMode (led_strip.rs:7-45) ----
    menu_walk,        \* a MenuOption walked from a start value by left or by right
    led_walk          \* a LedMode walked from a start value by left or by right

busVars  == <<i2c_bus, rtc, humidity_sensor, stack, init_pc, init_ret, ret, last_xfer, n_xfer>>
dispVars == <<csa1, csa2, csa3, dc, rst_log, brightness, bl_duty, disp_pc, disp_op, panels,
              todo, iter_rest, buf, buf_i, spi_log, disp_ret>>
ledVars  == <<led_pc, led_count, new_ret, sm_started, tx_fifo, led_args, led_word, led_i,
              accepted, last_write, n_calls, pio_pc, pio_x, osr, osr_count, pin,
              bit_cycles, last_bit, sent_bits>>
colVars  == <<col_rgb8, col_rgb565, col_be, col_built>>
divVars  == <<div_clock, div_steps, div_ret>>
stVars   == <<mode, last_mode, led_strip, state_brightness, transition, is_mode_down,
              lr_pressed_while_mode_down, time_delta, panicked, n_events>>
btnVars  == <<debounce, button_state, button_ret, emitted, all_low, n_samples>>
dsVars   == <<ds_regs, ds_ret>>
walkVars == <<menu_walk, led_walk>>
vars     == <<busVars, dispVars, ledVars, colVars, divVars, stVars, btnVars, dsVars, walkVars>>

\* what the actions of one component leave alone
notBus  == <<dispVars, ledVars, colVars, divVars, stVars, btnVars, dsVars, walkVars>>
notDisp == <<busVars, ledVars, colVars, divVars, stVars, btnVars, dsVars, walkVars>>
notLed  == <<busVars, dispVars, colVars, divVars, stVars, btnVars, dsVars, walkVars>>
notCol  == <<busVars, dispVars, ledVars, divVars, stVars, btnVars, dsVars, walkVars>>
notDiv  == <<busVars, dispVars, ledVars, colVars, stVars, btnVars, dsVars, walkVars>>
notSt   == <<busVars, dispVars, ledVars, colVars, divVars, btnVars, dsVars, walkVars>>
notBtn  == <<busVars, dispVars, ledVars, colVars, divVars, stVars, dsVars, walkVars>>
notDs   == <<busVars, dispVars, ledVars, colVars, divVars, stVars, btnVars, walkVars>>
notWalk == <<busVars, dispVars, ledVars, colVars, divVars, stVars, btnVars, dsVars>>

None    == <<>>
Some(v) == <<v>>

(***************************************************************************)
(* Bounds                                                                  *)
(***************************************************************************)
MaxXfer == 48     \* I2C transactions followed in one behaviour

(***************************************************************************)
(* I2C bus arbiter                                                         *)
(***************************************************************************)
BME280_I2C_ADDR == 118    \* 0x76
DS3231_I2C_ADDR == 104    \* 0x68

Devices == {"rtc", "humidity_sensor"}

DS3231State_new(addr) == [addr |-> addr]
BME280State_new(addr) == [addr |-> addr, compensator |-> None]

\* DS3231::init: read_reg(Control), write_reg(Control)
DS3231_init == <<"write_read", "write">>

\* BME280::init: read_regs([ChipId]); set_settings (3 write_reg); calibrate
\* (read_regs of 6, 18 and 8 registers, one write_read each)
BME280_init == <<"write_read">> \o <<"write", "write", "write">>
               \o [k \in 1..32 |-> "write_read"]

Script(dev) == IF dev = "rtc" THEN DS3231_init ELSE BME280_init

\* map_err of read_reg / read_regs / write_reg
XferError(kind) == IF kind = "write_read" THEN "BusRead" ELSE "BusWrite"

OpOk(v)   == [tag |-> "Ok",  val |-> v]
OpErr(e)  == [tag |-> "Err", val |-> e]
NoInner   == [tag |-> "none", val |-> ""]

\* results an arbitrary closure may hand back
ClosureResults == {OpOk("unit"), OpOk("v1"), OpOk("v2"), OpErr("BusRead"), OpErr("BusWrite")}

OuterOk(r)    == [tag |-> "Ok",  err |-> "",         inner |-> r]
OuterI2CClaim == [tag |-> "Err", err |-> "I2CClaim", inner |-> NoInner]

Slot(dev)  == IF dev = "rtc" THEN rtc ELSE humidity_sensor

\* what a caller observes of a with_* call that has returned
Returned(dev, nested, byInit, busBefore, stBefore, xferBefore, result, opres) ==
    [dev |-> dev, nested |-> nested, by_init |-> byInit,
     bus_at_call |-> busBefore, state_at_call |-> stBefore,
     xfer_at_call |-> xferBefore, xfer_at_ret |-> n_xfer,
     result |-> result, op_result |-> opres]

\* the guard with is_some() typed for the bus handle
is_claimed_SomeBus(bus, st) == bus # None \/ st = None

\* hardware.rs:99 / 120: if self.i2c_bus.is_none() || self.<dev>.is_none()
is_claimed(bus, st) == bus = None \/ st = None

\* the checkout with the bus handle copied out of its slot instead of taken
with_device_call_BusNotTaken(dev, op, byInit) ==
    LET bus == i2c_bus
        st  == Slot(dev)
        nested == stack # <<>>
    IN  IF bus = None \/ st = None
        THEN /\ UNCHANGED <<i2c_bus, rtc, humidity_sensor, stack>>
             /\ ret' = Some(Returned(dev, nested, byInit, bus, st, n_xfer,
                                     OuterI2CClaim, NoInner))
        ELSE /\ i2c_bus' = bus
             /\ rtc' = IF dev = "rtc" THEN None ELSE rtc
             /\ humidity_sensor' = IF dev = "rtc" THEN humidity_sensor ELSE None
             /\ stack' = Append(stack,
                   [dev |-> dev, i2c |-> bus[1], state |-> st[1], op |-> op,
                    pos |-> 1, by_init |-> byInit, nested |-> nested,
                    bus_at_call |-> bus, state_at_call |-> st,
                    xfer_at_call |-> n_xfer, res |-> None])
             /\ ret' = None

\* the checkout that takes both slots before it looks at them
with_device_call_TakeBeforeGuard(dev, op, byInit) ==
    LET bus == i2c_bus
        st  == Slot(dev)
        nested == stack # <<>>
        fail(busAfter, stAfter) ==
            /\ i2c_bus' = busAfter
            /\ rtc' = IF dev = "rtc" THEN stAfter ELSE rtc
            /\ humidity_sensor' = IF dev = "rtc" THEN humidity_sensor ELSE stAfter
            /\ stack' = stack
            /\ ret' = Some(Returned(dev, nested, byInit, bus, st, n_xfer,
                                    OuterI2CClaim, NoInner))
    IN  IF is_claimed(bus, st)
        THEN fail(None, None)
        ELSE \* (self.i2c_bus.take(), self.<dev>.take())
             IF bus = None \/ st = None
             THEN fail(None, None)
             ELSE /\ i2c_bus' = None
                  /\ rtc' = IF dev = "rtc" THEN None ELSE rtc
                  /\ humidity_sensor' = IF dev = "rtc" THEN humidity_sensor ELSE None
                  /\ stack' = Append(stack,
                        [dev |-> dev, i2c |-> bus[1], state |-> st[1], op |-> op,
                         pos |-> 1, by_init |-> byInit, nested |-> nested,
                         bus_at_call |-> bus, state_at_call |-> st,
                         xfer_at_call |-> n_xfer, res |-> None])
                  /\ ret' = None

\* hardware.rs:98-108 / 116-129 up to the invocation of f: the guard, the
\* take() of both slots, the let-else, and the construction of the driver.
with_device_call(dev, op, byInit) ==
    LET bus == i2c_bus
        st  == Slot(dev)
        nested == stack # <<>>
        fail(busAfter, stAfter) ==
            /\ i2c_bus' = busAfter
            /\ rtc' = IF dev = "rtc" THEN stAfter ELSE rtc
            /\ humidity_sensor' = IF dev = "rtc" THEN humidity_sensor ELSE stAfter
            /\ stack' = stack
            /\ ret' = Some(Returned(dev, nested, byInit, bus, st, n_xfer,
                                    OuterI2CClaim, NoInner))
    IN  IF is_claimed(bus, st)
        THEN fail(bus, st)
        ELSE \* (self.i2c_bus.take(), self.<dev>.take())
             IF bus = None \/ st = None
             THEN fail(None, None)
             ELSE /\ i2c_bus' = None
                  /\ rtc' = IF dev = "rtc" THEN None ELSE rtc
                  /\ humidity_sensor' = IF dev = "rtc" THEN humidity_sensor ELSE None
                  /\ stack' = Append(stack,
                        [dev |-> dev, i2c |-> bus[1], state |-> st[1], op |-> op,
                         pos |-> 1, by_init |-> byInit, nested |-> nested,
                         bus_at_call |-> bus, state_at_call |-> st,
                         xfer_at_call |-> n_xfer, res |-> None])
                  /\ ret' = None


Top == stack[Len(stack)]

SetTop(f) == [stack EXCEPT ![Len(stack)] = f]

\* one I2C transaction of the driver on top: self.i2c.write / write_read at
\* self.state.addr (ds3231.rs:106-121, bme280.rs:101-113)
Xfer(kind) ==
    [addr |-> Top.state.addr, kind |-> kind,
     holders |-> [k \in 1..Len(stack) |-> stack[k].dev]]

\* DS3231::init (ds3231.rs:100-104) and BME280::init (bme280.rs:127-214),
\* one register access at a time; outcome is what the bus / the chip answers.
op_init_step(outcome) ==
    /\ UNCHANGED notBus
    /\ stack # <<>>
    /\ Top.op = "init"
    /\ Top.res = None
    /\ n_xfer < MaxXfer
    /\ LET f    == Top
           scr  == Script(f.dev)
           kind == scr[f.pos]
           last == f.pos = Len(scr)
       IN  /\ outcome = "wrong_chip_id" => (f.dev = "humidity_sensor" /\ f.pos = 1)
           /\ last_xfer' = Some(Xfer(kind))
           /\ n_xfer' = n_xfer + 1
           /\ stack' = SetTop(
                CASE outcome = "fail" ->
                       [f EXCEPT !.res = Some(OpErr(XferError(kind)))]
                  [] outcome = "wrong_chip_id" ->
                       [f EXCEPT !.res = Some(OpErr("WrongChipId"))]
                  [] OTHER ->
                       IF ~last THEN [f EXCEPT !.pos = f.pos + 1]
                       ELSE IF f.dev = "humidity_sensor"
                            \* self.state.compensator.replace(compensator)
                            THEN [f EXCEPT !.state.compensator = Some("calibration"),
                                           !.res = Some(OpOk("unit"))]
                            ELSE [f EXCEPT !.res = Some(OpOk("unit"))])
    /\ UNCHANGED <<i2c_bus, rtc, humidity_sensor, init_pc, init_ret>>
    /\ ret' = None

\* BME280::read_params: the 8 measurement registers read by read_regs
ReadParamsRegs == 8

\* BME280::read_params (bme280.rs:216-239), one register access at a time:
\* read_regs of 8 registers, then the let-else on self.state.compensator
op_read_params_step(outcome) ==
    /\ UNCHANGED notBus
    /\ stack # <<>>
    /\ Top.op = "read_params"
    /\ Top.res = None
    /\ n_xfer < MaxXfer
    /\ last_xfer' = Some(Xfer("write_read"))
    /\ n_xfer' = n_xfer + 1
    /\ stack' = SetTop(
          IF outcome = "fail" THEN [Top EXCEPT !.res = Some(OpErr("BusRead"))]
          ELSE IF Top.pos < ReadParamsRegs THEN [Top EXCEPT !.pos = Top.pos + 1]
          ELSE IF Top.state.compensator = None
               THEN [Top EXCEPT !.res = Some(OpErr("NotInitialized"))]
               ELSE [Top EXCEPT !.res = Some(OpOk("params"))])
    /\ UNCHANGED <<i2c_bus, rtc, humidity_sensor, init_pc, init_ret>>
    /\ ret' = None

\* an arbitrary closure f performs a register access through its driver
op_closure_xfer(kind) ==
    /\ UNCHANGED notBus
    /\ stack # <<>>
    /\ Top.op = "f"
    /\ Top.res = None
    /\ n_xfer < MaxXfer
    /\ last_xfer' = Some(Xfer(kind))
    /\ n_xfer' = n_xfer + 1
    /\ UNCHANGED <<i2c_bus, rtc, humidity_sensor, stack, init_pc, init_ret>>
    /\ ret' = None

\* an arbitrary closure f returns
op_closure_return(r) ==
    /\ UNCHANGED notBus
    /\ stack # <<>>
    /\ Top.op = "f"
    /\ Top.res = None
    /\ stack' = SetTop([Top EXCEPT !.res = Some(r)])
    /\ UNCHANGED <<i2c_bus, rtc, humidity_sensor, init_pc, init_ret, last_xfer, n_xfer>>
    /\ ret' = None

\* the closure of a running with_* call calls with_rtc / with_humidity_sensor
\* again (the case the guard at hardware.rs:99 exists for)
op_closure_reenter(dev) ==
    /\ UNCHANGED notBus
    /\ stack # <<>>
    /\ Top.op = "f"
    /\ Top.res = None
    /\ with_device_call(dev, "f", FALSE)
    /\ UNCHANGED <<init_pc, init_ret, last_xfer, n_xfer>>

\* the check-in without the replace() of the device state
with_device_return_StateDropped ==
    /\ UNCHANGED notBus
    /\ stack # <<>>
    /\ Top.res # None
    /\ LET f == Top
           result == OuterOk(f.res[1])
       IN  /\ i2c_bus' = Some(f.i2c)
           /\ UNCHANGED <<rtc, humidity_sensor>>
           /\ stack' = SubSeq(stack, 1, Len(stack) - 1)
           /\ ret' = Some(Returned(f.dev, f.nested, f.by_init, f.bus_at_call,
                                   f.state_at_call, f.xfer_at_call, result, f.res[1]))
           /\ IF f.by_init
              THEN IF result.inner.tag = "Err"
                   THEN /\ init_pc' = "idle"
                        /\ init_ret' = Some(IF f.dev = "rtc" THEN "Rtc" ELSE "HumiditySensor")
                   ELSE /\ init_pc' = IF f.dev = "rtc" THEN "hum" ELSE "disp"
                        /\ init_ret' = init_ret
              ELSE UNCHANGED <<init_pc, init_ret>>
    /\ UNCHANGED <<last_xfer, n_xfer>>

\* the check-in with the operation's error turned into the arbiter's own error
with_device_return_ErrorFlattened ==
    /\ UNCHANGED notBus
    /\ stack # <<>>
    /\ Top.res # None
    /\ LET f == Top
           result == IF f.res[1].tag = "Err" THEN OuterI2CClaim ELSE OuterOk(f.res[1])
       IN  /\ i2c_bus' = Some(f.i2c)
           /\ rtc' = IF f.dev = "rtc" THEN Some(f.state) ELSE rtc
           /\ humidity_sensor' = IF f.dev = "rtc" THEN humidity_sensor ELSE Some(f.state)
           /\ stack' = SubSeq(stack, 1, Len(stack) - 1)
           /\ ret' = Some(Returned(f.dev, f.nested, f.by_init, f.bus_at_call,
                                   f.state_at_call, f.xfer_at_call, result, f.res[1]))
           /\ IF f.by_init
              THEN IF f.res[1].tag = "Err"
                   THEN /\ init_pc' = "idle"
                        /\ init_ret' = Some("I2CClaim")
                   ELSE /\ init_pc' = IF f.dev = "rtc" THEN "hum" ELSE "disp"
                        /\ init_ret' = init_ret
              ELSE UNCHANGED <<init_pc, init_ret>>
    /\ UNCHANGED <<last_xfer, n_xfer>>

\* the check-in that parks a state made afresh from the address
with_device_return_FreshState ==
    /\ UNCHANGED notBus
    /\ stack # <<>>
    /\ Top.res # None
    /\ LET f == Top
           result == OuterOk(f.res[1])
       IN  /\ i2c_bus' = Some(f.i2c)
           /\ rtc' = IF f.dev = "rtc" THEN Some(DS3231State_new(f.state.addr)) ELSE rtc
           /\ humidity_sensor' = IF f.dev = "rtc" THEN humidity_sensor ELSE Some(BME280State_new(f.state.addr))
           /\ stack' = SubSeq(stack, 1, Len(stack) - 1)
           /\ ret' = Some(Returned(f.dev, f.nested, f.by_init, f.bus_at_call,
                                   f.state_at_call, f.xfer_at_call, result, f.res[1]))
           /\ IF f.by_init
              THEN IF result.inner.tag = "Err"
                   THEN /\ init_pc' = "idle"
                        /\ init_ret' = Some(IF f.dev = "rtc" THEN "Rtc" ELSE "HumiditySensor")
                   ELSE /\ init_pc' = IF f.dev = "rtc" THEN "hum" ELSE "disp"
                        /\ init_ret' = init_ret
              ELSE UNCHANGED <<init_pc, init_ret>>
    /\ UNCHANGED <<last_xfer, n_xfer>>

\* hardware.rs:109-112 / 130-133: release(), both replace(), Ok(result);
\* for the calls made by init also the `?.map_err(..)?` at hardware.rs:86-88
with_device_return ==
    /\ UNCHANGED notBus
    /\ stack # <<>>
    /\ Top.res # None
    /\ LET f == Top
           result == OuterOk(f.res[1])
       IN  /\ i2c_bus' = Some(f.i2c)
           /\ rtc' = IF f.dev = "rtc" THEN Some(f.state) ELSE rtc
           /\ humidity_sensor' = IF f.dev = "rtc" THEN humidity_sensor ELSE Some(f.state)
           /\ stack' = SubSeq(stack, 1, Len(stack) - 1)
           /\ ret' = Some(Returned(f.dev, f.nested, f.by_init, f.bus_at_call,
                                   f.state_at_call, f.xfer_at_call, result, f.res[1]))
           /\ IF f.by_init
              THEN IF result.inner.tag = "Err"
                   THEN /\ init_pc' = "idle"
                        /\ init_ret' = Some(IF f.dev = "rtc" THEN "Rtc" ELSE "HumiditySensor")
                   ELSE /\ init_pc' = IF f.dev = "rtc" THEN "hum" ELSE "disp"
                        /\ init_ret' = init_ret
              ELSE UNCHANGED <<init_pc, init_ret>>
    /\ UNCHANGED <<last_xfer, n_xfer>>

\* a caller of the public API calls with_rtc(f)
with_rtc(op) ==
    /\ UNCHANGED notBus
    /\ stack = <<>>
    /\ init_pc = "idle"
    /\ with_device_call("rtc", op, FALSE)
    /\ UNCHANGED <<init_pc, init_ret, last_xfer, n_xfer>>

\* a caller of the public API calls with_humidity_sensor(f)
with_humidity_sensor(op) ==
    /\ UNCHANGED notBus
    /\ stack = <<>>
    /\ init_pc = "idle"
    /\ with_device_call("humidity_sensor", op, FALSE)
    /\ UNCHANGED <<init_pc, init_ret, last_xfer, n_xfer>>

\* init() with the clock chip's address given to the sensor state as well
init_replace_SameAddr ==
    /\ UNCHANGED notBus
    /\ stack = <<>>
    /\ init_pc = "idle"
    /\ rtc' = Some(DS3231State_new(DS3231_I2C_ADDR))
    /\ humidity_sensor' = Some(BME280State_new(DS3231_I2C_ADDR))
    /\ init_pc' = "rtc"
    /\ init_ret' = None
    /\ ret' = None
    /\ UNCHANGED <<i2c_bus, stack, last_xfer, n_xfer>>

\* hardware.rs:83-85: init() stores fresh device state in both slots
init_replace ==
    /\ UNCHANGED notBus
    /\ stack = <<>>
    /\ init_pc = "idle"
    /\ rtc' = Some(DS3231State_new(DS3231_I2C_ADDR))
    /\ humidity_sensor' = Some(BME280State_new(BME280_I2C_ADDR))
    /\ init_pc' = "rtc"
    /\ init_ret' = None
    /\ ret' = None
    /\ UNCHANGED <<i2c_bus, stack, last_xfer, n_xfer>>

\* hardware.rs:86-87: self.with_rtc(DS3231Ty::init)? / self.with_humidity_sensor(BME280Ty::init)?
init_with(dev) ==
    /\ UNCHANGED notBus
    /\ stack = <<>>
    /\ init_pc = (IF dev = "rtc" THEN "rtc" ELSE "hum")
    /\ with_device_call(dev, "init", TRUE)
    /\ IF is_claimed(i2c_bus, Slot(dev))
       THEN init_pc' = "idle" /\ init_ret' = Some("I2CClaim")
       ELSE UNCHANGED <<init_pc, init_ret>>
    /\ UNCHANGED <<last_xfer, n_xfer>>

\* hardware.rs:89-92: displays.init() and clear_all; neither touches the I2C slots
init_displays(r) ==
    /\ UNCHANGED notBus
    /\ stack = <<>>
    /\ init_pc = "disp"
    /\ init_pc' = "idle"
    /\ init_ret' = Some(r)
    /\ ret' = None
    /\ UNCHANGED <<i2c_bus, rtc, humidity_sensor, stack, last_xfer, n_xfer>>

\* state after LcdClockHardware::new (hardware.rs:69-79)
BusInit ==
    /\ i2c_bus = Some("I2C1")
    /\ rtc = None
    /\ humidity_sensor = None
    /\ stack = <<>>
    /\ init_pc = "idle"
    /\ init_ret = None
    /\ ret = None
    /\ last_xfer = None
    /\ n_xfer = 0

BusNext ==
    \/ init_replace
    \/ \E dev \in Devices : init_with(dev)
    \/ \E r \in {"Ok", "Display"} : init_displays(r)
    \/ \E op \in {"init", "f"} : with_rtc(op)
    \/ \E op \in {"init", "f", "read_params"} : with_humidity_sensor(op)
    \/ \E o \in {"ok", "fail", "wrong_chip_id"} : op_init_step(o)
    \/ \E o \in {"ok", "fail"} : op_read_params_step(o)
    \/ \E k \in {"write_read", "write"} : op_closure_xfer(k)
    \/ \E dev \in Devices : op_closure_reenter(dev)
    \/ \E r \in ClosureResults : op_closure_return(r)
    \/ with_device_return

(***************************************************************************)
(* Multi-panel display driver                                              *)
(***************************************************************************)
MaxCoord   == 300     \* largest region coordinate passed by a caller
MaxPayload == 257     \* longest colour sequence passed by a caller

WIDTH   == 135
HEIGHT  == 240
BUF_LEN == 256        \* let mut buf = [0u8; 256]

\* enum Command
MADCTL == 54
COLMOD == 58
PORCTRL == 178
GCTRL == 183
VCOMS == 187
LCMCTRL == 192
VDVVRHEN == 194
VRHS == 195
VDVS == 196
FRCTRL2 == 198
PWCTRL1 == 208
PVGAMCTRL == 224
NVGAMCTRL == 225
INVON == 33
SLPOUT == 17
DISPON == 41
CASET == 42
RASET == 43
RAMWR == 44

\* Display::all()
Display_all == <<"D1", "D2", "D3", "D4", "D5", "D6">>

Displays == {Display_all[k] : k \in 1..Len(Display_all)}

\* the table without the reversal
into_cs_value_NotReversed(display) ==
    CASE display = "D1" -> 0
      [] display = "D2" -> 1
      [] display = "D3" -> 2
      [] display = "D4" -> 3
      [] display = "D5" -> 4
      [] display = "D6" -> 5

into_cs_value(display) ==
    CASE display = "D1" -> 5
      [] display = "D2" -> 4
      [] display = "D3" -> 3
      [] display = "D4" -> 2
      [] display = "D5" -> 1
      [] display = "D6" -> 0

\* bool -> PinState
PinState(b) == IF b THEN "High" ELSE "Low"

\* value & mask for a one-bit mask
BitAnd(value, mask) == ((value \div mask) % 2) * mask

into_cs_states(display) ==
    LET value == into_cs_value(display)
    IN  << PinState(BitAnd(value, 1) # 0),
           PinState(BitAnd(value, 2) # 0),
           PinState(BitAnd(value, 4) # 0) >>

\* u16::to_be_bytes
to_be_bytes(v) == << (v \div 256) % 256, v % 256 >>

\* send_commands / send_command: D/C low, then the opcode byte
Cmd(op)     == [dc |-> "Low",  bytes |-> <<op>>]

\* send_data that leaves the D/C line low
Data_DcLeftLow(bytes) == [dc |-> "Low", bytes |-> bytes]

\* send_data: D/C high, then the bytes
Data(bytes) == [dc |-> "High", bytes |-> bytes]

\* set_region with the column and row offsets exchanged
set_region_OffsetsSwapped(x_start, y_start, x_end, y_end) ==
    LET xs == x_start + 40
        xe == x_end + 40 - 1
        ys == y_start + 52
        ye == y_end + 52 - 1
    IN  << Cmd(CASET), Data(to_be_bytes(xs) \o to_be_bytes(xe)),
           Cmd(RASET), Data(to_be_bytes(ys) \o to_be_bytes(ye)) >>

\* drivers/st7789vwx6.rs set_region: the four writes it issues
set_region(x_start, y_start, x_end, y_end) ==
    LET xs == x_start + 52
        xe == x_end + 52 - 1
        ys == y_start + 40
        ye == y_end + 40 - 1
    IN  << Cmd(CASET), Data(to_be_bytes(xs) \o to_be_bytes(xe)),
           Cmd(RASET), Data(to_be_bytes(ys) \o to_be_bytes(ye)) >>

\* src/st7789vwx6.rs (earlier generation) set_region
legacy_set_region(x_start, y_start, x_end, y_end) ==
    LET xs == x_start + 52
        xe == x_end + 52
        ys == y_start + 40
        ye == y_end + 40
    IN  << Cmd(CASET), Data(to_be_bytes(xs) \o to_be_bytes(xe)),
           Cmd(RASET), Data(to_be_bytes(ys) \o to_be_bytes(ye)) >>

\* init_display: the writes of the vendor sequence
init_display ==
    << Cmd(MADCTL), Data(<<0>>),
       Cmd(COLMOD), Data(<<85>>),
       Cmd(PORCTRL), Data(<<12, 12, 0, 51, 51>>),
       Cmd(GCTRL), Data(<<53>>),
       Cmd(VCOMS), Data(<<25>>),
       Cmd(LCMCTRL), Data(<<44>>),
       Cmd(VDVVRHEN), Data(<<1>>),
       Cmd(VRHS), Data(<<18>>),
       Cmd(VDVS), Data(<<32>>),
       Cmd(FRCTRL2), Data(<<15>>),
       Cmd(PWCTRL1), Data(<<164, 161>>),
       Cmd(PVGAMCTRL), Data(<<208, 4, 13, 17, 19, 43, 63, 84, 76, 24, 13, 11, 31, 35>>),
       Cmd(NVGAMCTRL), Data(<<208, 4, 12, 17, 19, 44, 63, 68, 81, 47, 31, 31, 32, 35>>),
       Cmd(INVON), Cmd(SLPOUT), Cmd(DISPON) >>

NoOp == [name |-> "none", display |-> "none", x_start |-> 0, y_start |-> 0,
         x_end |-> 0, y_end |-> 0, colors |-> <<>>, duty |-> 0]

CsLines == <<csa1, csa2, csa3>>

\* cs_low driving the three lines in the opposite order
cs_low_LinesSwapped(display) ==
    LET states == into_cs_states(display)
    IN  /\ csa1' = states[3]
        /\ csa2' = states[2]
        /\ csa3' = states[1]

cs_low(display) ==
    LET states == into_cs_states(display)
    IN  /\ csa1' = states[1]
        /\ csa2' = states[2]
        /\ csa3' = states[3]

cs_high ==
    /\ csa1' = "High"
    /\ csa2' = "High"
    /\ csa3' = "High"

\* the panel the running operation addresses
Target == IF disp_op.name = "init" THEN Head(panels) ELSE disp_op.display

\* with_cs returning early on an error (f(self)?), before cs_high
with_cs_exit_EarlyReturn(result) ==
    /\ IF result = "Ok" THEN cs_high ELSE UNCHANGED <<csa1, csa2, csa3>>
    /\ todo' = <<>>
    /\ iter_rest' = <<>>
    /\ buf' = <<>>
    /\ buf_i' = 0
    /\ IF disp_op.name = "init" /\ result = "Ok"
       THEN /\ disp_pc' = "init_loop"
            /\ panels' = Tail(panels)
            /\ disp_ret' = None
       ELSE /\ disp_pc' = "returned"
            /\ panels' = <<>>
            /\ disp_ret' = Some(result)

\* init going on with the next panel whatever init_display returned (no `?`)
with_cs_exit_ErrorSwallowed(result) ==
    /\ cs_high
    /\ todo' = <<>>
    /\ iter_rest' = <<>>
    /\ buf' = <<>>
    /\ buf_i' = 0
    /\ IF disp_op.name = "init"
       THEN /\ disp_pc' = "init_loop"
            /\ panels' = Tail(panels)
            /\ disp_ret' = None
       ELSE /\ disp_pc' = "returned"
            /\ panels' = <<>>
            /\ disp_ret' = Some(result)

\* with_cs after f has returned `result`: cs_high, then what the caller of
\* with_cs does with the result; the locals of the closure are gone
with_cs_exit(result) ==
    /\ cs_high
    /\ todo' = <<>>
    /\ iter_rest' = <<>>
    /\ buf' = <<>>
    /\ buf_i' = 0
    /\ IF disp_op.name = "init" /\ result = "Ok"
       THEN \* `?` lets the for loop go on
            /\ disp_pc' = "init_loop"
            /\ panels' = Tail(panels)
            /\ disp_ret' = None
       ELSE /\ disp_pc' = "returned"
            /\ panels' = <<>>
            /\ disp_ret' = Some(result)

\* set_brightness wrapped in a deselect of the panels
set_brightness_Deselects(v) ==
    /\ UNCHANGED notDisp
    /\ disp_pc = "idle"
    /\ brightness' = v
    /\ bl_duty' = v
    /\ disp_op' = [NoOp EXCEPT !.name = "set_brightness", !.duty = v]
    /\ disp_pc' = "returned"
    /\ disp_ret' = Some("unit")
    /\ spi_log' = <<>>
    /\ cs_high
    /\ UNCHANGED <<dc, rst_log, panels, todo, iter_rest, buf, buf_i>>

\* self.brightness = brightness; self.bl.set_duty(self.brightness)
set_brightness(v) ==
    /\ UNCHANGED notDisp
    /\ disp_pc = "idle"
    /\ brightness' = v
    /\ bl_duty' = v
    /\ disp_op' = [NoOp EXCEPT !.name = "set_brightness", !.duty = v]
    /\ disp_pc' = "returned"
    /\ disp_ret' = Some("unit")
    /\ spi_log' = <<>>
    /\ UNCHANGED <<csa1, csa2, csa3, dc, rst_log, panels, todo, iter_rest,
                   buf, buf_i>>

\* init walking the panels from D6 down to D1
init_PanelsReversed ==
    /\ UNCHANGED notDisp
    /\ disp_pc = "idle"
    /\ rst_log' = <<"High", "Low", "High">>
    /\ bl_duty' = brightness
    /\ panels' = [k \in 1..Len(Display_all) |-> Display_all[Len(Display_all) + 1 - k]]
    /\ disp_op' = [NoOp EXCEPT !.name = "init"]
    /\ disp_pc' = "init_loop"
    /\ spi_log' = <<>>
    /\ disp_ret' = None
    /\ UNCHANGED <<csa1, csa2, csa3, dc, brightness, todo, iter_rest, buf, buf_i>>

\* init: hard_reset, set_brightness(self.brightness), Display::all()
init ==
    /\ UNCHANGED notDisp
    /\ disp_pc = "idle"
    /\ rst_log' = <<"High", "Low", "High">>
    /\ bl_duty' = brightness
    /\ panels' = Display_all
    /\ disp_op' = [NoOp EXCEPT !.name = "init"]
    /\ disp_pc' = "init_loop"
    /\ spi_log' = <<>>
    /\ disp_ret' = None
    /\ UNCHANGED <<csa1, csa2, csa3, dc, brightness, todo, iter_rest, buf, buf_i>>

\* init: one turn of `for display in Display::all()` up to the call of init_display
init_next ==
    /\ UNCHANGED notDisp
    /\ disp_pc = "init_loop"
    /\ IF panels = <<>>
       THEN /\ disp_pc' = "returned"
            /\ disp_ret' = Some("Ok")
            /\ UNCHANGED <<csa1, csa2, csa3, todo>>
       ELSE /\ cs_low(Head(panels))
            /\ todo' = init_display
            /\ disp_pc' = "init_display"
            /\ disp_ret' = None
    /\ UNCHANGED <<dc, rst_log, brightness, bl_duty, disp_op, panels, iter_rest,
                   buf, buf_i, spi_log>>

set_pixels(display, x_start, y_start, x_end, y_end, colors) ==
    /\ UNCHANGED notDisp
    /\ disp_pc = "idle"
    /\ disp_op' = [name |-> "set_pixels", display |-> display, x_start |-> x_start,
                   y_start |-> y_start, x_end |-> x_end, y_end |-> y_end,
                   colors |-> colors, duty |-> 0]
    /\ cs_low(display)
    /\ todo' = set_region(x_start, y_start, x_end, y_end)
               \o << Cmd(RAMWR), Data(colors) >>
    /\ disp_pc' = "pixels"
    /\ spi_log' = <<>>
    /\ disp_ret' = None
    /\ UNCHANGED <<dc, rst_log, brightness, bl_duty, panels, iter_rest, buf, buf_i>>

set_pixels_iter(display, x_start, y_start, x_end, y_end, colors) ==
    /\ UNCHANGED notDisp
    /\ disp_pc = "idle"
    /\ disp_op' = [name |-> "set_pixels_iter", display |-> display, x_start |-> x_start,
                   y_start |-> y_start, x_end |-> x_end, y_end |-> y_end,
                   colors |-> colors, duty |-> 0]
    /\ cs_low(display)
    /\ todo' = set_region(x_start, y_start, x_end, y_end) \o << Cmd(RAMWR) >>
    /\ iter_rest' = colors
    /\ buf' = [k \in 1..BUF_LEN |-> 0]
    /\ buf_i' = 0
    /\ disp_pc' = "iter_header"
    /\ spi_log' = <<>>
    /\ disp_ret' = None
    /\ UNCHANGED <<dc, rst_log, brightness, bl_duty, panels>>

\* src/st7789vwx6.rs set_pixel
legacy_set_pixel(display, x, y, color) ==
    /\ UNCHANGED notDisp
    /\ disp_pc = "idle"
    /\ disp_op' = [name |-> "legacy_set_pixel", display |-> display, x_start |-> x,
                   y_start |-> y, x_end |-> x, y_end |-> y,
                   colors |-> to_be_bytes(color), duty |-> 0]
    /\ cs_low(display)
    /\ todo' = legacy_set_region(x, y, x, y)
               \o << Cmd(RAMWR), Data(to_be_bytes(color)) >>
    /\ disp_pc' = "pixels"
    /\ spi_log' = <<>>
    /\ disp_ret' = None
    /\ UNCHANGED <<dc, rst_log, brightness, bl_duty, panels, iter_rest, buf, buf_i>>

\* the loop without the test `if i == buf.len()`
iter_loop_NeverFull(b, i, rest) ==
    LET room == Len(b) - i
        n    == IF Len(rest) < room THEN Len(rest) ELSE room
    IN  [buf  |-> [k \in 1..Len(b) |-> IF k > i /\ k <= i + n THEN rest[k - i] ELSE b[k]],
         i    |-> i + n,
         rest |-> SubSeq(rest, n + 1, Len(rest)),
         full |-> FALSE]

\* set_pixels_iter: `for v in colors.into_iter() { buf[i] = v; i += 1; ... }`
\* run until the buffer is full (i == buf.len()) or the iterator is exhausted:
\* the bytes go to buf[i], buf[i+1], .. one by one
iter_loop(b, i, rest) ==
    LET room == Len(b) - i
        n    == IF Len(rest) < room THEN Len(rest) ELSE room
    IN  [buf  |-> [k \in 1..Len(b) |-> IF k > i /\ k <= i + n THEN rest[k - i] ELSE b[k]],
         i    |-> i + n,
         rest |-> SubSeq(rest, n + 1, Len(rest)),
         full |-> (n > 0 /\ i + n = Len(b))]

\* what set_pixels_iter passes to send_data after the loop
iter_tail(b, i) == b

\* set_pixels_iter: the loop up to its next SPI write, or the code after it
iter_next ==
    /\ UNCHANGED notDisp
    /\ disp_pc = "iter_loop"
    /\ LET l == iter_loop(buf, buf_i, iter_rest)
       IN  IF l.full
           THEN /\ buf' = l.buf
                /\ buf_i' = l.i
                /\ iter_rest' = l.rest
                /\ todo' = << Data(l.buf) >>
                /\ disp_pc' = "iter_flush"
                /\ disp_ret' = None
                /\ UNCHANGED <<csa1, csa2, csa3, panels>>
           ELSE IF l.i # 0
                THEN /\ buf' = l.buf
                     /\ buf_i' = l.i
                     /\ iter_rest' = l.rest
                     /\ todo' = << Data(iter_tail(l.buf, l.i)) >>
                     /\ disp_pc' = "iter_tail"
                     /\ disp_ret' = None
                     /\ UNCHANGED <<csa1, csa2, csa3, panels>>
                ELSE with_cs_exit("Ok")
    /\ UNCHANGED <<dc, rst_log, brightness, bl_duty, disp_op, spi_log>>

\* send_commands / send_data: set D/C, then spi.write, which succeeds or fails;
\* with what the closure and with_cs do next
spi_write(ok) ==
    /\ UNCHANGED notDisp
    /\ disp_pc \in {"init_display", "pixels", "iter_header", "iter_flush", "iter_tail"}
    /\ todo # <<>>
    /\ LET w == Head(todo)
       IN  /\ dc' = w.dc
           /\ spi_log' = Append(spi_log,
                 [dc |-> dc', cs |-> CsLines, bytes |-> w.bytes, panel |-> Target,
                  ok |-> ok])
    /\ IF ~ok
       THEN with_cs_exit("BusWrite")
       ELSE IF Tail(todo) # <<>>
            THEN /\ todo' = Tail(todo)
                 /\ UNCHANGED <<csa1, csa2, csa3, disp_pc, panels, disp_ret,
                                iter_rest, buf, buf_i>>
            ELSE CASE disp_pc \in {"init_display", "pixels", "iter_tail"} ->
                        with_cs_exit("Ok")
                   [] disp_pc = "iter_header" ->
                        /\ disp_pc' = "iter_loop"
                        /\ todo' = <<>>
                        /\ UNCHANGED <<csa1, csa2, csa3, panels, disp_ret,
                                       iter_rest, buf, buf_i>>
                   [] disp_pc = "iter_flush" ->
                        /\ disp_pc' = "iter_loop"
                        /\ todo' = <<>>
                        /\ buf_i' = 0
                        /\ UNCHANGED <<csa1, csa2, csa3, panels, disp_ret,
                                       iter_rest, buf>>
    /\ UNCHANGED <<rst_log, brightness, bl_duty, disp_op>>

\* the caller has taken the Result of the operation; the driver is idle
drop_result ==
    /\ UNCHANGED notDisp
    /\ disp_pc = "returned"
    /\ disp_pc' = "idle"
    /\ disp_op' = NoOp
    /\ spi_log' = <<>>
    /\ disp_ret' = None
    /\ UNCHANGED <<csa1, csa2, csa3, dc, rst_log, brightness, bl_duty, panels, todo,
                   iter_rest, buf, buf_i>>

PinLevels == {"High", "Low"}

Duties == {0, 65535}

\* regions callers pass: draw_rect / fill style (end exclusive) and arbitrary
Regions == { <<0, 0, 9, 9>>, <<0, 0, WIDTH, HEIGHT>>, <<3, 7, MaxCoord, MaxCoord - 40>> }

\* colour sequences: n bytes alternating the two bytes of a 16 bit colour
ColorBytes(n, c) == [k \in 1..n |-> to_be_bytes(c)[2 - (k % 2)]]

PayloadLens == {0, 1, 200, BUF_LEN, MaxPayload}

Colors16 == {63488}    \* 0xF800 (red)

\* state after ST7789VWx6::new; pin levels are whatever the board left
DispInit ==
    /\ csa1 \in PinLevels /\ csa2 \in PinLevels /\ csa3 \in PinLevels
    /\ dc \in PinLevels
    /\ rst_log = <<>>
    /\ brightness \in Duties
    /\ bl_duty = 0
    /\ disp_pc = "idle"
    /\ disp_op = NoOp
    /\ panels = <<>>
    /\ todo = <<>>
    /\ iter_rest = <<>>
    /\ buf = <<>>
    /\ buf_i = 0
    /\ spi_log = <<>>
    /\ disp_ret = None

DispNext ==
    \/ \E v \in Duties : set_brightness(v)
    \/ init
    \/ init_next
    \/ \E d \in Displays, r \in Regions, n \in PayloadLens, c \in Colors16 :
          set_pixels(d, r[1], r[2], r[3], r[4], ColorBytes(n, c))
    \/ \E d \in Displays, r \in Regions, n \in PayloadLens, c \in Colors16 :
          set_pixels_iter(d, r[1], r[2], r[3], r[4], ColorBytes(n, c))
    \/ \E d \in Displays, r \in Regions, c \in Colors16 :
          legacy_set_pixel(d, r[1], r[2], c)
    \/ iter_next
    \/ \E ok \in BOOLEAN : spi_write(ok)
    \/ drop_result

(***************************************************************************)
(* Gl: drawing helpers on top of the display driver                        *)
(***************************************************************************)
\* u16 - u16 and u16 * u16 as the release build computes them (wrapping)
sub16(a, b) == (a - b + 65536) % 65536
mul16(a, b) == (a * b) % 65536

\* (0..n).flat_map(|_| color.to_be()): n pixels of two bytes
flat_map_to_be(n, color) == ColorBytes(2 * n, color)

\* Gl::fill: the whole panel in one colour; width() and height() are the
\* WIDTH and HEIGHT the driver was built with (main.rs:110-111)
fill(display, color) ==
    LET w == WIDTH
        h == HEIGHT
    IN  set_pixels_iter(display, 0, 0, w, h, flat_map_to_be(mul16(w, h), color))

\* draw_rect generating the pixels of the end-inclusive rectangle
draw_rect_EndInclusive(display, x_min, y_min, x_max, y_max, color) ==
    set_pixels_iter(display, x_min, y_min, x_max, y_max,
        flat_map_to_be(mul16(sub16(x_max, x_min) + 1, sub16(y_max, y_min) + 1), color))

\* Gl::draw_rect
draw_rect(display, x_min, y_min, x_max, y_max, color) ==
    set_pixels_iter(display, x_min, y_min, x_max, y_max,
        flat_map_to_be(mul16(sub16(x_max, x_min), sub16(y_max, y_min)), color))

\* rectangles given to draw_rect: on the panel (one of them empty, one a
\* single pixel, the edges of draw_bounding_rect) and one larger than the panel
GlRects == { <<0, 0, 9, 9>>, <<3, 7, 3, 20>>, <<134, 239, 135, 240>>,
             <<0, 0, WIDTH, 2>>, <<133, 2, WIDTH, HEIGHT>>, <<0, 0, 256, 256>> }

GlNext ==
    \/ \E d \in Displays, c \in Colors16 : fill(d, c)
    \/ \E d \in Displays, r \in GlRects, c \in Colors16 :
          draw_rect(d, r[1], r[2], r[3], r[4], c)
    \/ iter_next
    \/ \E ok \in BOOLEAN : spi_write(ok)
    \/ drop_result

(***************************************************************************)
(* WS2812 LED strip driver and its PIO program                             *)
(***************************************************************************)
MaxLedCount == 9      \* largest led_count given to WS2812::new
MaxCalls    == 2      \* display calls followed in one behaviour
MaxEvents   == 8      \* handle_buttons calls followed in one behaviour
MaxSamples  == 10     \* Button::update calls followed in one behaviour
MaxIntegrator == 4    \* largest integrator_max given to Debounce::new
MaxClockMHz == 133    \* largest system clock given to WS2812::new, in MHz

T1 == 2               \* start bit
T2 == 5               \* data bit
T3 == 3               \* stop bit
CYCLES_PER_BIT == T1 + T2 + T3
FREQ == 800000        \* HertzU32::kHz(800)

PULL_THRESHOLD == 24  \* .pull_threshold(24)
TX_FIFO_DEPTH  == 8   \* Buffers::OnlyTx: both 4 word queues joined for transmit

\* the program with the line driven high by the out instruction
program_LineHighOnOut ==
    << [op |-> "out",        delay |-> T3 - 1, side |-> 1, target |-> 0],
       [op |-> "jmp_x_zero", delay |-> T1 - 1, side |-> 1, target |-> 3],
       [op |-> "jmp",        delay |-> T2 - 1, side |-> 1, target |-> 0],
       [op |-> "nop",        delay |-> T2 - 1, side |-> 0, target |-> 0] >>

\* the program without the delay on the nop of the zero branch
program_NopUndelayed ==
    << [op |-> "out",        delay |-> T3 - 1, side |-> 0, target |-> 0],
       [op |-> "jmp_x_zero", delay |-> T1 - 1, side |-> 1, target |-> 3],
       [op |-> "jmp",        delay |-> T2 - 1, side |-> 1, target |-> 0],
       [op |-> "nop",        delay |-> 0,      side |-> 0, target |-> 0] >>

\* the program with the shift replaced by a nop
program_NoOut ==
    << [op |-> "nop",        delay |-> T3 - 1, side |-> 0, target |-> 0],
       [op |-> "jmp_x_zero", delay |-> T1 - 1, side |-> 1, target |-> 3],
       [op |-> "jmp",        delay |-> T2 - 1, side |-> 1, target |-> 0],
       [op |-> "nop",        delay |-> T2 - 1, side |-> 0, target |-> 0] >>

\* the assembled program, instruction k at program[k + 1]:
\*   0 wrap_target: out x, 1        side 0 [T3 - 1]
\*   1              jmp !x do_zero  side 1 [T1 - 1]
\*   2              jmp wrap_target side 1 [T2 - 1]
\*   3 do_zero:     nop             side 0 [T2 - 1]
program ==
    << [op |-> "out",        delay |-> T3 - 1, side |-> 0, target |-> 0],
       [op |-> "jmp_x_zero", delay |-> T1 - 1, side |-> 1, target |-> 3],
       [op |-> "jmp",        delay |-> T2 - 1, side |-> 1, target |-> 0],
       [op |-> "nop",        delay |-> T2 - 1, side |-> 0, target |-> 0] >>

wrap_target == 0
wrap_source == 3      \* assemble_with_wrap: the instruction before the label

\* a u32 is its four bytes, most significant first
u32_from(v) == <<0, 0, 0, v>>

\* u32 << n for n a multiple of 8: bytes shifted out at the top are lost
shl(w, n) == [j \in 1..4 |-> IF j + (n \div 8) <= 4 THEN w[j + (n \div 8)] ELSE 0]

RECURSIVE BitOr(_, _)
\* a | b on naturals
BitOr(a, b) ==
    IF a = 0 THEN b
    ELSE IF b = 0 THEN a
    ELSE (IF a % 2 = 1 \/ b % 2 = 1 THEN 1 ELSE 0) + 2 * BitOr(a \div 2, b \div 2)

\* u32 | u32
or32(v, w) == [j \in 1..4 |-> BitOr(v[j], w[j])]

\* the word with red in the top byte
display_word_RedFirst(r, g, b) ==
    or32(or32(shl(u32_from(r), 24), shl(u32_from(g), 16)), shl(u32_from(b), 8))

\* display: let word = (u32::from(g) << 24) | (u32::from(r) << 16) | (u32::from(b) << 8)
display_word(r, g, b) ==
    or32(or32(shl(u32_from(g), 24), shl(u32_from(r), 16)), shl(u32_from(b), 8))

\* u32 << 1 and the bit it shifts out (ShiftDirection::Left)
shl1(w) == [j \in 1..4 |-> ((w[j] * 2) % 256) + (IF j < 4 THEN w[j + 1] \div 128 ELSE 0)]

\* the bit taken from the low end of the register
msb_LowEnd(w) == w[4] % 2

msb(w)  == w[1] \div 128

bit_freq == FREQ * CYCLES_PER_BIT

\* the divider with the remainder not scaled by 256
clock_div_RemNotScaled(clock_freq) ==
    LET int  == clock_freq \div bit_freq
        rem  == clock_freq - (int * bit_freq)
        frac == rem \div bit_freq
    IN  [int |-> int % 65536, frac |-> frac % 256]

\* A u32 c is held as the pair <<c \div 256, c % 256>> where it may exceed
\* the numbers the checker computes with.
split(c) == <<c \div 256, c % 256>>

\* a u32 that has wrapped: the pair stands for a value of 2^32 or more
wraps(c) == c[1] >= 16777216

\* what is left of a wrapped u32
wrap32(c) == <<c[1] % 16777216, c[2]>>

\* u32 / u32 by long division, for a divisor below 2^23
div_u32(c, d) == (c[1] \div d) * 256 + (((c[1] % d) * 256 + c[2]) \div d)

\* u32 * u32, not yet wrapped
mul_u32(n, d) ==
    LET lo == n * (d % 256)
    IN  <<n * (d \div 256) + (lo \div 256), lo % 256>>

\* the number a u32 below 2^31 stands for
val(c) == c[1] * 256 + c[2]

\* u32 - u32, wrapping where the difference is negative
sub_u32(c, p) ==
    LET hi == c[1] - p[1]
        lo == c[2] - p[2]
        h  == IF lo < 0 THEN hi - 1 ELSE hi
        l  == IF lo < 0 THEN lo + 256 ELSE lo
    IN  <<(h + 16777216) % 16777216, l>>

\* the divider computed for a bit rate given in Hz instead of kHz
divider_steps_BitRateInHz(c) ==
    LET bf   == (FREQ \div 1000) * CYCLES_PER_BIT
        int  == div_u32(c, bf)
        prod == mul_u32(int, bf)
        rem  == sub_u32(c, wrap32(prod))
        scal == mul_u32(val(rem), 256)
        frac == div_u32(wrap32(scal), bf)
    IN  [bit_freq |-> bf, int |-> int, prod |-> prod, rem |-> rem, scaled |-> scal,
         frac |-> frac,
         overflow |-> wraps(prod) \/ wraps(scal)]

\* new, lines 75-78: bit_freq, int, rem, frac in u32 arithmetic. The product
\* int * bit_freq and rem * 256 are kept unwrapped next to the flag that
\* tells whether one of them has left the u32 range.
divider_steps(c) ==
    LET bf   == bit_freq
        int  == div_u32(c, bf)
        prod == mul_u32(int, bf)
        rem  == sub_u32(c, wrap32(prod))
        scal == mul_u32(val(rem), 256)
        frac == div_u32(wrap32(scal), bf)
    IN  [bit_freq |-> bf, int |-> int, prod |-> prod, rem |-> rem, scaled |-> scal,
         frac |-> frac,
         overflow |-> wraps(prod) \/ wraps(scal)]

\* new, lines 80-81: `int as u16`, `frac as u8`
narrow(d) == [int |-> d.int % 65536, frac |-> d.frac % 256]

\* new, lines 75-81, for a clock below 2^31
clock_div(clock_freq) == narrow(divider_steps(split(clock_freq)))

NoArgs == [r |-> 0, g |-> 0, b |-> 0]
NoWord == <<0, 0, 0, 0>>

\* WS2812::new: install the program, compute the divider, build and start the
\* state machine
new(count, clock_freq, install_ok) ==
    /\ UNCHANGED notLed
    /\ led_pc = "unbuilt"
    /\ IF ~install_ok
       THEN \* pio.install(&program).map_err(|_| Error::PioError)?
            /\ new_ret' = Some([tag |-> "Err", err |-> "PioError", clock_freq |-> clock_freq,
                                int |-> 0, frac |-> 0])
            /\ led_pc' = "failed"
            /\ UNCHANGED <<led_count, sm_started>>
       ELSE LET d == clock_div(clock_freq)
            IN  /\ new_ret' = Some([tag |-> "Ok", err |-> "none", clock_freq |-> clock_freq,
                                    int |-> d.int, frac |-> d.frac])
                /\ led_pc' = "built"
                /\ led_count' = count
                /\ sm_started' = TRUE
    /\ UNCHANGED <<tx_fifo, led_args, led_word, led_i, accepted, last_write, n_calls,
                   pio_pc, pio_x, osr, osr_count, pin, bit_cycles, last_bit, sent_bits>>

\* the caller has taken the driver out of the Result of new
take_driver ==
    /\ UNCHANGED notLed
    /\ led_pc = "built"
    /\ led_pc' = "idle"
    /\ new_ret' = None
    /\ UNCHANGED <<led_count, sm_started, tx_fifo, led_args, led_word, led_i, accepted,
                   last_write, n_calls, pio_pc, pio_x, osr, osr_count, pin, bit_cycles,
                   last_bit, sent_bits>>

\* display up to the first tx.write
display(r, g, b) ==
    /\ UNCHANGED notLed
    /\ led_pc = "idle"
    /\ n_calls < MaxCalls
    /\ n_calls' = n_calls + 1
    /\ led_args' = [r |-> r, g |-> g, b |-> b]
    /\ led_word' = display_word(r, g, b)
    /\ led_i' = 0
    /\ accepted' = <<>>
    /\ last_write' = None
    /\ led_pc' = IF led_count = 0 THEN "returned" ELSE "display"
    /\ UNCHANGED <<led_count, new_ret, sm_started, tx_fifo, pio_pc, pio_x, osr, osr_count,
                   pin, bit_cycles, last_bit, sent_bits>>

\* tx.write that takes the word although the queue is full
tx_write_Overrun ==
    /\ UNCHANGED notLed
    /\ led_pc = "display"
    /\ tx_fifo' = IF Len(tx_fifo) < TX_FIFO_DEPTH
                  THEN Append(tx_fifo, led_word)
                  ELSE Append(SubSeq(tx_fifo, 1, TX_FIFO_DEPTH - 1), led_word)
    /\ accepted' = IF Len(tx_fifo) < TX_FIFO_DEPTH THEN Append(accepted, led_word) ELSE accepted
    /\ led_i' = led_i + 1
    /\ last_write' = Some([word |-> led_word, ok |-> TRUE, i |-> led_i,
                           before |-> tx_fifo, after |-> tx_fifo'])
    /\ led_pc' = IF led_i + 1 = led_count THEN "returned" ELSE "display"
    /\ UNCHANGED <<led_count, new_ret, sm_started, led_args, led_word, n_calls,
                   pio_pc, pio_x, osr, osr_count, pin, bit_cycles, last_bit, sent_bits>>

\* display: one `self.tx.write(word)` of `while !self.tx.write(word) { nop() }`;
\* a full queue refuses the word and the while loop tries again
tx_write ==
    /\ UNCHANGED notLed
    /\ led_pc = "display"
    /\ IF Len(tx_fifo) < TX_FIFO_DEPTH
       THEN /\ tx_fifo' = Append(tx_fifo, led_word)
            /\ accepted' = Append(accepted, led_word)
            /\ led_i' = led_i + 1
            /\ last_write' = Some([word |-> led_word, ok |-> TRUE, i |-> led_i,
                                   before |-> tx_fifo, after |-> tx_fifo'])
            /\ led_pc' = IF led_i + 1 = led_count THEN "returned" ELSE "display"
       ELSE /\ last_write' = Some([word |-> led_word, ok |-> FALSE, i |-> led_i,
                                   before |-> tx_fifo, after |-> tx_fifo])
            /\ UNCHANGED <<tx_fifo, accepted, led_i, led_pc>>
    /\ UNCHANGED <<led_count, new_ret, sm_started, led_args, led_word, n_calls,
                   pio_pc, pio_x, osr, osr_count, pin, bit_cycles, last_bit, sent_bits>>

\* display has returned and the caller goes on
display_return ==
    /\ UNCHANGED notLed
    /\ led_pc = "returned"
    /\ led_pc' = "idle"
    /\ led_args' = NoArgs
    /\ led_word' = NoWord
    /\ led_i' = 0
    /\ accepted' = <<>>
    /\ last_write' = None
    /\ UNCHANGED <<led_count, new_ret, sm_started, tx_fifo, n_calls, pio_pc, pio_x, osr,
                   osr_count, pin, bit_cycles, last_bit, sent_bits>>

\* the state machine executes the instruction at pio_pc with its delay cycles.
\* `out x, 1` with autopull: when PULL_THRESHOLD bits have left the OSR it is
\* refilled from the queue first, and the instruction stalls while the queue is
\* empty
pio_exec ==
    /\ UNCHANGED notLed
    /\ sm_started
    /\ LET ins    == program[pio_pc + 1]
           pull   == ins.op = "out" /\ osr_count >= PULL_THRESHOLD
           o      == IF pull THEN Head(tx_fifo) ELSE osr
           x      == IF ins.op = "out" THEN msb(o) ELSE pio_x
           taken  == ins.op = "jmp" \/ (ins.op = "jmp_x_zero" /\ pio_x = 0)
           npc    == IF taken THEN ins.target
                     ELSE IF pio_pc = wrap_source THEN wrap_target
                     ELSE pio_pc + 1
           cycles == bit_cycles + 1 + ins.delay
       IN  /\ pull => tx_fifo # <<>>
           /\ tx_fifo' = IF pull THEN Tail(tx_fifo) ELSE tx_fifo
           /\ osr' = IF ins.op = "out" THEN shl1(o) ELSE osr
           /\ osr_count' = IF ins.op = "out"
                           THEN (IF pull THEN 0 ELSE osr_count) + 1
                           ELSE osr_count
           /\ sent_bits' = IF ins.op = "out"
                           THEN Append(IF pull THEN <<>> ELSE sent_bits, x)
                           ELSE sent_bits
           /\ pio_x' = x
           /\ pin' = ins.side
           /\ pio_pc' = npc
           /\ IF npc = wrap_target
              THEN /\ last_bit' = Some([bit |-> pio_x, cycles |-> cycles])
                   /\ bit_cycles' = 0
              ELSE /\ last_bit' = None
                   /\ bit_cycles' = cycles
    /\ UNCHANGED <<led_pc, led_count, new_ret, sm_started, led_args, led_word, led_i,
                   accepted, last_write, n_calls>>

\* led_count given to new: none, the 6 of main.rs, more than the queue holds
LedCounts == {0, 6, MaxLedCount}

\* system clocks given to new, in Hz
ClockFreqs == {0, 1000000, bit_freq - 1, bit_freq, bit_freq + 31249, bit_freq + 31250,
               12000000, 125000000, MaxClockMHz * 1000000}

\* colours given to display
LedColors == { <<255, 0, 128>>, <<1, 2, 4>> }

\* before WS2812::new; the state machine is in its reset state: nothing in
\* the queue, the OSR counted as empty
LedInit ==
    /\ led_pc = "unbuilt"
    /\ led_count = 0
    /\ new_ret = None
    /\ sm_started = FALSE
    /\ tx_fifo = <<>>
    /\ led_args = NoArgs
    /\ led_word = NoWord
    /\ led_i = 0
    /\ accepted = <<>>
    /\ last_write = None
    /\ n_calls = 0
    /\ pio_pc = wrap_target
    /\ pio_x = 0
    /\ osr = NoWord
    /\ osr_count = PULL_THRESHOLD
    /\ pin = 0
    /\ bit_cycles = 0
    /\ last_bit = None
    /\ sent_bits = <<>>

LedNext ==
    \/ \E c \in LedCounts, f \in ClockFreqs, ok \in BOOLEAN : new(c, f, ok)
    \/ take_driver
    \/ \E col \in LedColors : display(col[1], col[2], col[3])
    \/ tx_write
    \/ display_return
    \/ pio_exec

\* the driver as main.rs uses it: one system clock, one colour
LedFairNext ==
    \/ \E c \in LedCounts : new(c, 125000000, TRUE)
    \/ take_driver
    \/ display(255, 0, 255)
    \/ tx_write
    \/ display_return
    \/ pio_exec

(***************************************************************************)
(* Colour conversion                                                       *)
(***************************************************************************)
\* v >> n and v << n on u16 / u8 values
shr(v, n)   == v \div (2 ^ n)
shl16(v, n) == (v * (2 ^ n)) % 65536

\* the conversion keeping the high bits of blue in the red field
ColorRGB565_from_BlueRedSwapped(value) ==
    LET r   == shr(value.b, 3)
        g   == shr(value.g, 2)
        b   == shr(value.r, 3)
    IN  BitOr(BitOr(shl16(r, 11), shl16(g, 5)), b)

\* impl From<ColorRGB8> for ColorRGB565
ColorRGB565_from(value) ==
    LET r   == shr(value.r, 3)
        g   == shr(value.g, 2)
        b   == shr(value.b, 3)
    IN  BitOr(BitOr(shl16(r, 11), shl16(g, 5)), b)

\* ColorRGB565::to_be
to_be(c) == to_be_bytes(c)

\* ColorRGB565::from(value) for the ColorRGB8 at hand
convert ==
    /\ UNCHANGED notCol
    /\ col_rgb565 = None
    /\ col_rgb565' = Some(ColorRGB565_from(col_rgb8))
    /\ UNCHANGED <<col_rgb8, col_be, col_built>>

\* .to_be() on the converted colour, as Gl::fill and Gl::draw_rect call it
serialise ==
    /\ UNCHANGED notCol
    /\ col_rgb565 # None
    /\ col_be = None
    /\ col_be' = Some(to_be(col_rgb565[1]))
    /\ UNCHANGED <<col_rgb8, col_rgb565, col_built>>

\* convert_rgb8_to_rgb565 that pushes the low byte of a pixel first
convert_rgb8_to_rgb565_LowByteFirst(src, width, height) ==
    [k \in 1..(width * height * 2) |->
        LET offset == ((k - 1) \div 2) * 3
            b      == shr(src[offset + 3], 3)
            g      == shl16(shr(src[offset + 2], 2), 5)
            r      == shl16(shr(src[offset + 1], 3), 11)
            rgb    == BitOr(BitOr(r, g), b)
        IN  IF k % 2 = 1 THEN rgb % 256 ELSE shr(rgb, 8) % 256]

\* convert_rgb8_to_rgb565 of the build script: src holds width * height
\* pixels of three bytes, row by row (indices from 1 here); byte k of dst
\* belongs to pixel (k - 1) / 2, whose offset in src is row * width + col
\* times three; the first byte pushed is rgb >> 8, the second rgb & 0xFF
convert_rgb8_to_rgb565(src, width, height) ==
    [k \in 1..(width * height * 2) |->
        LET offset == ((k - 1) \div 2) * 3
            b      == shr(src[offset + 3], 3)
            g      == shl16(shr(src[offset + 2], 2), 5)
            r      == shl16(shr(src[offset + 1], 3), 11)
            rgb    == BitOr(BitOr(r, g), b)
        IN  IF k % 2 = 1 THEN shr(rgb, 8) % 256 ELSE rgb % 256]

\* the build script converting an image of two pixels: the colour at hand
\* and, after it, its complement
build_convert ==
    /\ UNCHANGED notCol
    /\ col_built = None
    /\ col_built' = Some(convert_rgb8_to_rgb565(
                            <<col_rgb8.r, col_rgb8.g, col_rgb8.b,
                              255 - col_rgb8.r, 255 - col_rgb8.g, 255 - col_rgb8.b>>, 2, 1))
    /\ UNCHANGED <<col_rgb8, col_rgb565, col_be>>

\* channel values around the bits the conversion drops
Channels == {0, 3, 4, 7, 8, 128, 255}

ColInit ==
    /\ col_rgb8 \in [r : Channels, g : Channels, b : Channels]
    /\ col_rgb565 = None
    /\ col_be = None
    /\ col_built = None

\* ColorRGB8::black(), not converted
ColRest ==
    /\ col_rgb8 = [r |-> 0, g |-> 0, b |-> 0]
    /\ col_rgb565 = None
    /\ col_be = None
    /\ col_built = None

ColNext ==
    \/ convert
    \/ serialise
    \/ build_convert

(***************************************************************************)
(* Clock divider over the u32 range                                        *)
(***************************************************************************)
\* new, lines 75-78, for the clock at hand
divide ==
    /\ UNCHANGED notDiv
    /\ div_steps = None
    /\ div_steps' = Some(divider_steps(div_clock))
    /\ UNCHANGED <<div_clock, div_ret>>

\* new, lines 80-81, on the locals computed
narrow_locals ==
    /\ UNCHANGED notDiv
    /\ div_steps # None
    /\ div_ret = None
    /\ div_ret' = Some(narrow(div_steps[1]))
    /\ UNCHANGED <<div_clock, div_steps>>

\* system clocks over the whole u32 range, as <<clock / 256, clock % 256>>:
\* around multiples of bit_freq = 31250 * 256 (largest remainders, largest
\* quotient 536), the 125 MHz of the board, 2^31 and 2^32 - 1
DivClocksHigh == {0, 1, 31249, 31250, 31251, 46875, 62499, 62500, 488281, 519531,
                  8388607, 8388608, 16718750, 16749999, 16750000, 16777215}
DivClocksLow  == {0, 1, 64, 255}

DivInit ==
    /\ div_clock \in DivClocksHigh \X DivClocksLow
    /\ div_steps = None
    /\ div_ret = None

\* the 125 MHz clock, divider not computed
DivRest ==
    /\ div_clock = <<488281, 64>>
    /\ div_steps = None
    /\ div_ret = None

DivNext ==
    \/ divide
    \/ narrow_locals

(***************************************************************************)
(* Application state machine                                               *)
(***************************************************************************)
\* enum AppMode: the variant and its payload; the fields a variant does not
\* have are "-" and 0
AppMode(tag, screen, menu, index) ==
    [tag |-> tag, screen |-> screen, menu |-> menu, index |-> index]

TimeDateScreen_left(screen)  == IF screen = "Time" THEN "Date" ELSE "Time"
TimeDateScreen_right(screen) == IF screen = "Time" THEN "Date" ELSE "Time"

\* MenuOption::left that stays on Return
MenuOption_left_ReturnStays(menu) ==
    CASE menu = "SetTime"       -> "Return"
      [] menu = "SetAlarm"      -> "SetTime"
      [] menu = "SetRgb"        -> "SetAlarm"
      [] menu = "SetBrightness" -> "SetRgb"
      [] menu = "TempHumidity"  -> "SetBrightness"
      [] menu = "Return"        -> "Return"

MenuOption_left(menu) ==
    CASE menu = "SetTime"       -> "Return"
      [] menu = "SetAlarm"      -> "SetTime"
      [] menu = "SetRgb"        -> "SetAlarm"
      [] menu = "SetBrightness" -> "SetRgb"
      [] menu = "TempHumidity"  -> "SetBrightness"
      [] menu = "Return"        -> "TempHumidity"

MenuOption_right(menu) ==
    CASE menu = "SetTime"       -> "SetAlarm"
      [] menu = "SetAlarm"      -> "SetRgb"
      [] menu = "SetRgb"        -> "SetBrightness"
      [] menu = "SetBrightness" -> "TempHumidity"
      [] menu = "TempHumidity"  -> "Return"
      [] menu = "Return"        -> "SetTime"

LedModes == <<"Off", "Sin", "Red", "Green", "Blue", "Yellow", "Cyan", "Pink">>

LedMode_right(m) ==
    CASE m = "Off"    -> "Sin"
      [] m = "Sin"    -> "Red"
      [] m = "Red"    -> "Green"
      [] m = "Green"  -> "Blue"
      [] m = "Blue"   -> "Yellow"
      [] m = "Yellow" -> "Cyan"
      [] m = "Cyan"   -> "Pink"
      [] m = "Pink"   -> "Off"

LedMode_left(m) ==
    CASE m = "Off"    -> "Pink"
      [] m = "Sin"    -> "Off"
      [] m = "Red"    -> "Sin"
      [] m = "Green"  -> "Red"
      [] m = "Blue"   -> "Green"
      [] m = "Yellow" -> "Blue"
      [] m = "Cyan"   -> "Yellow"
      [] m = "Pink"   -> "Cyan"

\* LedStripState::left / right
LedStripState_left(l)  == [mode |-> LedMode_left(l.mode), transition |-> TRUE]
LedStripState_right(l) == [mode |-> LedMode_right(l.mode), transition |-> TRUE]

\* u32::saturating_sub and core::cmp::min
saturating_sub(a, b) == IF a < b THEN 0 ELSE a - b
min(a, b) == IF a < b THEN a ELSE b

\* the fields of State as one record
Self ==
    [mode |-> mode, last_mode |-> last_mode, led_strip |-> led_strip,
     brightness |-> state_brightness, transition |-> transition,
     is_mode_down |-> is_mode_down,
     lr_pressed_while_mode_down |-> lr_pressed_while_mode_down,
     time_delta |-> time_delta, panicked |-> panicked]

\* fn transition without the flag
State_transition_FlagNotSet(s, m) == [s EXCEPT !.mode = m]

\* fn transition
State_transition(s, m) == [s EXCEPT !.mode = m, !.transition = TRUE]

\* fn transition_regular
transition_regular(s) == State_transition(s, AppMode("Regular", "Time", "-", 0))

\* handle_buttons, the first match: the state of the mode button
match_mode_event(s, mode_ev) ==
    CASE mode_ev = "Release" -> [s EXCEPT !.is_mode_down = FALSE]
      [] mode_ev = "Press"   -> [s EXCEPT !.is_mode_down = TRUE,
                                          !.lr_pressed_while_mode_down = FALSE]
      [] OTHER               -> s

\* AppMode::Regular arm
arm_Regular(s, m, l, r) ==
    IF m THEN State_transition(s, AppMode("Menu", "-", "Return", 0))
    ELSE IF l THEN [s EXCEPT !.mode.screen = TimeDateScreen_left(s.mode.screen),
                             !.transition = TRUE]
    ELSE IF r THEN [s EXCEPT !.mode.screen = TimeDateScreen_right(s.mode.screen),
                             !.transition = TRUE]
    ELSE s

\* AppMode::Menu arm
arm_Menu(s, m, l, r) ==
    LET menu == s.mode.menu
    IN  IF m THEN State_transition(s,
                    CASE menu = "Return"        -> AppMode("Regular", "Time", "-", 0)
                      [] menu = "SetTime"       -> AppMode("SetTime", "-", "-", 0)
                      [] menu = "SetAlarm"      -> AppMode("SetAlarm", "-", "-", 0)
                      [] menu = "SetRgb"        -> AppMode("SetRgb", "-", "-", 0)
                      [] menu = "SetBrightness" -> AppMode("SetBrightness", "-", "-", 0)
                      [] menu = "TempHumidity"  -> AppMode("TempHumidity", "-", "-", 0))
        ELSE IF l THEN State_transition(s, AppMode("Menu", "-", MenuOption_left(menu), 0))
        ELSE IF r THEN State_transition(s, AppMode("Menu", "-", MenuOption_right(menu), 0))
        ELSE s

\* the arm that leaves the mode on every release of the mode button
arm_SetTime_LeavesOnEveryRelease(s, m, l, r) ==
    LET i  == s.mode.index
        s1 == IF s.is_mode_down
              THEN IF l THEN [s EXCEPT !.time_delta = Some(<<i, -1>>),
                                       !.lr_pressed_while_mode_down = TRUE]
                   ELSE IF r THEN [s EXCEPT !.time_delta = Some(<<i, 1>>),
                                            !.lr_pressed_while_mode_down = TRUE]
                   ELSE s
              ELSE IF l THEN [s EXCEPT !.mode.index = IF i = 0 THEN 11 ELSE i - 1,
                                       !.transition = TRUE]
              ELSE IF r THEN [s EXCEPT !.mode.index = IF i = 11 THEN 0 ELSE i + 1,
                                       !.transition = TRUE]
              ELSE s
    IN  IF m THEN transition_regular(s1) ELSE s1

\* the arm with left that stops at screen 0
arm_SetTime_LeftStopsAtZero(s, m, l, r) ==
    LET i  == s.mode.index
        s1 == IF s.is_mode_down
              THEN IF l THEN [s EXCEPT !.time_delta = Some(<<i, -1>>),
                                       !.lr_pressed_while_mode_down = TRUE]
                   ELSE IF r THEN [s EXCEPT !.time_delta = Some(<<i, 1>>),
                                            !.lr_pressed_while_mode_down = TRUE]
                   ELSE s
              ELSE IF l THEN [s EXCEPT !.mode.index = IF i = 0 THEN 0 ELSE i - 1,
                                       !.transition = TRUE]
              ELSE IF r THEN [s EXCEPT !.mode.index = IF i = 11 THEN 0 ELSE i + 1,
                                       !.transition = TRUE]
              ELSE s
    IN  IF m /\ ~s1.lr_pressed_while_mode_down THEN transition_regular(s1) ELSE s1

\* AppMode::SetTime arm and, with the same body, AppMode::SetAlarm arm
arm_SetTime(s, m, l, r) ==
    LET i  == s.mode.index
        s1 == IF s.is_mode_down
              THEN IF l THEN [s EXCEPT !.time_delta = Some(<<i, -1>>),
                                       !.lr_pressed_while_mode_down = TRUE]
                   ELSE IF r THEN [s EXCEPT !.time_delta = Some(<<i, 1>>),
                                            !.lr_pressed_while_mode_down = TRUE]
                   ELSE s
              ELSE IF l THEN [s EXCEPT !.mode.index = IF i = 0 THEN 11 ELSE i - 1,
                                       !.transition = TRUE]
              ELSE IF r THEN [s EXCEPT !.mode.index = IF i = 11 THEN 0 ELSE i + 1,
                                       !.transition = TRUE]
              ELSE s
    IN  IF m /\ ~s1.lr_pressed_while_mode_down THEN transition_regular(s1) ELSE s1

\* AppMode::SetRgb arm
arm_SetRgb(s, m, l, r) ==
    LET s1 == IF l THEN [s EXCEPT !.led_strip = LedStripState_left(s.led_strip),
                                  !.transition = TRUE]
              ELSE IF r THEN [s EXCEPT !.led_strip = LedStripState_right(s.led_strip),
                                       !.transition = TRUE]
              ELSE s
    IN  IF m THEN transition_regular(s1) ELSE s1

\* the arm with the right button adding one without a limit
arm_SetBrightness_Unlimited(s, m, l, r) ==
    LET s1 == IF l THEN [s EXCEPT !.brightness = saturating_sub(s.brightness, 1),
                                  !.transition = TRUE]
              ELSE IF r THEN [s EXCEPT !.brightness = s.brightness + 1,
                                       !.transition = TRUE]
              ELSE s
    IN  IF m THEN transition_regular(s1) ELSE s1

\* AppMode::SetBrightness arm
arm_SetBrightness(s, m, l, r) ==
    LET s1 == IF l THEN [s EXCEPT !.brightness = saturating_sub(s.brightness, 1),
                                  !.transition = TRUE]
              ELSE IF r THEN [s EXCEPT !.brightness = min(9, s.brightness + 1),
                                       !.transition = TRUE]
              ELSE s
    IN  IF m THEN transition_regular(s1) ELSE s1

\* AppMode::TempHumidity arm: todo!()
arm_TempHumidity(s, m, l, r) == [s EXCEPT !.panicked = TRUE]

\* State::handle_buttons as a function of the fields and the three events
handle_buttons_on(s, mode_ev, left_ev, right_ev) ==
    LET s0 == [s EXCEPT !.last_mode = s.mode]
        s1 == match_mode_event(s0, mode_ev)
        m  == mode_ev = "Release"
        l  == left_ev = "Release"
        r  == right_ev = "Release"
    IN  CASE s1.mode.tag = "Regular"       -> arm_Regular(s1, m, l, r)
          [] s1.mode.tag = "Menu"          -> arm_Menu(s1, m, l, r)
          [] s1.mode.tag = "SetTime"       -> arm_SetTime(s1, m, l, r)
          [] s1.mode.tag = "SetAlarm"      -> arm_SetTime(s1, m, l, r)
          [] s1.mode.tag = "SetRgb"        -> arm_SetRgb(s1, m, l, r)
          [] s1.mode.tag = "SetBrightness" -> arm_SetBrightness(s1, m, l, r)
          [] s1.mode.tag = "TempHumidity"  -> arm_TempHumidity(s1, m, l, r)

\* State::handle_buttons(mode, left, right)
handle_buttons(mode_ev, left_ev, right_ev) ==
    /\ UNCHANGED notSt
    /\ ~panicked
    /\ n_events < MaxEvents
    /\ n_events' = n_events + 1
    /\ LET t == handle_buttons_on(Self, mode_ev, left_ev, right_ev)
       IN  /\ mode' = t.mode
           /\ last_mode' = t.last_mode
           /\ led_strip' = t.led_strip
           /\ state_brightness' = t.brightness
           /\ transition' = t.transition
           /\ is_mode_down' = t.is_mode_down
           /\ lr_pressed_while_mode_down' = t.lr_pressed_while_mode_down
           /\ time_delta' = t.time_delta
           /\ panicked' = t.panicked

\* State::take_time_delta
take_time_delta ==
    /\ UNCHANGED notSt
    /\ ~panicked
    /\ time_delta # None
    /\ time_delta' = None
    /\ UNCHANGED <<mode, last_mode, led_strip, state_brightness, transition, is_mode_down,
                   lr_pressed_while_mode_down, panicked, n_events>>

\* State::eat_transition
eat_transition ==
    /\ UNCHANGED notSt
    /\ ~panicked
    /\ transition
    /\ transition' = FALSE
    /\ UNCHANGED <<mode, last_mode, led_strip, state_brightness, time_delta, is_mode_down,
                   lr_pressed_while_mode_down, panicked, n_events>>

\* Option<ButtonEvent>
ButtonEvents == {"None", "Press", "Release"}

\* State::new(sin, brightness)
State_new(b) ==
    /\ mode = AppMode("Regular", "Time", "-", 0)
    /\ last_mode = AppMode("Regular", "Time", "-", 0)
    /\ led_strip = [mode |-> "Sin", transition |-> FALSE]
    /\ state_brightness = b
    /\ transition = TRUE
    /\ is_mode_down = FALSE
    /\ lr_pressed_while_mode_down = FALSE
    /\ time_delta = None
    /\ panicked = FALSE
    /\ n_events = 0

\* levels State::new is given: the ends of the range, the 9 that right stops
\* at, one in between
StartLevels == {0, 5, 9, 10}

StInit == \E b \in StartLevels : State_new(b)

StRest == State_new(0)

StNext ==
    \/ \E me \in ButtonEvents, le \in ButtonEvents, re \in ButtonEvents :
          handle_buttons(me, le, re)
    \/ take_time_delta
    \/ eat_transition

(***************************************************************************)
(* Debounced buttons                                                       *)
(***************************************************************************)
\* Debounce::new
Debounce_new(integrator_max) == [integrator |-> 0, max |-> integrator_max, output |-> FALSE]

\* Debounce::is_pressed
is_pressed(d) == d.output

\* Debounce::update with the level the pin reads; the integrator stays within
\* 0 ..= max, so the u32 arithmetic does not wrap
Debounce_update(d, is_low) ==
    LET i == IF is_low /\ d.integrator # 0 THEN d.integrator - 1
             ELSE IF d.integrator < d.max THEN d.integrator + 1
             ELSE d.integrator
        o == IF i = 0 THEN FALSE
             ELSE IF i = d.max THEN TRUE
             ELSE d.output
    IN  [d EXCEPT !.integrator = i, !.output = o]

\* Button::update that returns Release and forgets to leave Pressed
Button_update_on_StaysPressed(pin_field, state_field, is_low) ==
    LET d == Debounce_update(pin_field, is_low)
    IN  IF state_field = "Released" /\ is_pressed(d)
          THEN [pin |-> d, state |-> "Pressed", ret |-> "Press"]
        ELSE IF state_field = "Pressed" /\ ~is_pressed(d)
          THEN [pin |-> d, state |-> "Pressed", ret |-> "Release"]
        ELSE [pin |-> d, state |-> state_field, ret |-> "None"]

\* Button::update on the fields pin and state: the fields afterwards and the
\* value returned
Button_update_on(pin_field, state_field, is_low) ==
    LET d == Debounce_update(pin_field, is_low)
    IN  IF state_field = "Released" /\ is_pressed(d)
          THEN [pin |-> d, state |-> "Pressed", ret |-> "Press"]
        ELSE IF state_field = "Pressed" /\ ~is_pressed(d)
          THEN [pin |-> d, state |-> "Released", ret |-> "Release"]
        ELSE [pin |-> d, state |-> state_field, ret |-> "None"]

\* one call of Button::update
Button_update(is_low) ==
    /\ UNCHANGED notBtn
    /\ n_samples < MaxSamples
    /\ LET b == Button_update_on(debounce, button_state, is_low)
       IN  /\ debounce' = b.pin
           /\ button_state' = b.state
           /\ button_ret' = b.ret
           /\ emitted' = IF b.ret = "None" THEN emitted ELSE Append(emitted, b.ret)
    /\ all_low' = (all_low /\ is_low)
    /\ n_samples' = n_samples + 1

\* Button::new(Debounce::new(pin, integrator_max))
Button_new(integrator_max) ==
    /\ debounce = Debounce_new(integrator_max)
    /\ button_state = "Released"
    /\ button_ret = "None"
    /\ emitted = <<>>
    /\ all_low = TRUE
    /\ n_samples = 0

BtnInit == \E m \in 0..MaxIntegrator : Button_new(m)

BtnRest == Button_new(MaxIntegrator)

BtnNext == \E is_low \in BOOLEAN : Button_update(is_low)

(***************************************************************************)
(* DS3231 calendar registers                                               *)
(***************************************************************************)
\* a & b and !a on u8 values
RECURSIVE and8(_, _)
and8(a, b) ==
    IF a = 0 \/ b = 0 THEN 0
    ELSE (IF a % 2 = 1 /\ b % 2 = 1 THEN 1 ELSE 0) + 2 * and8(a \div 2, b \div 2)

not8(a) == 255 - a

\* impl Bcd2Dec<u8> for u8; << drops the bits shifted out of the u8
bcd_to_dec(self) == (shr(and8(self, 240), 4) * 10) + and8(self, 15)

dec_to_bsd(self) == BitOr(((self \div 10) * 16) % 256, self % 10)

H12_BIT     == 64
PM_BIT      == 32
H12_MASK    == 15
H24_MASK    == 63
CENTURY_BIT == 128
MONTH_MASK  == 15
YEAR_OFFSET == 1900

\* enum Register, the calendar part
Register == [Seconds |-> 0, Minutes |-> 1, Hours |-> 2, Days |-> 3, Date |-> 4,
             Month |-> 5, Year |-> 6]

extract_hour_info(hours) ==
    IF and8(hours, H12_BIT) # 0
      THEN IF and8(hours, PM_BIT) # 0 THEN "H12PM" ELSE "H12AM"
    ELSE "H24"

\* what a driver call leaves: the registers of the chip, the Result (its
\* variant and, for Ok of a getter, its value) and the register writes that
\* reached the chip
Out(regs, result, value, writes) ==
    [regs |-> regs, result |-> result, value |-> value, writes |-> writes]

\* read_reg: the byte the chip answers with
read_reg(regs, reg) == regs[reg]

\* write_reg reaching the chip, after the writes `before` of the same call
write_reg(regs, before, reg, value) ==
    Out([regs EXCEPT ![reg] = value], "Ok", 0, Append(before, <<reg, value>>))

\* The calls below take the registers, the argument and fail_at: the bus
\* transaction of the call that fails, counted from 1 (0: none fails).
get_secs(regs, fail_at) ==
    IF fail_at = 1 THEN Out(regs, "BusRead", 0, <<>>)
    ELSE Out(regs, "Ok", bcd_to_dec(read_reg(regs, Register.Seconds)), <<>>)

set_secs(regs, secs, fail_at) ==
    IF secs \in 0..59
      THEN IF fail_at = 1 THEN Out(regs, "BusWrite", 0, <<>>)
           ELSE write_reg(regs, <<>>, Register.Seconds, dec_to_bsd(secs))
    ELSE Out(regs, "SecondsRange", 0, <<>>)

get_mins(regs, fail_at) ==
    IF fail_at = 1 THEN Out(regs, "BusRead", 0, <<>>)
    ELSE Out(regs, "Ok", bcd_to_dec(read_reg(regs, Register.Minutes)), <<>>)

set_mins(regs, mins, fail_at) ==
    IF mins \in 0..59
      THEN IF fail_at = 1 THEN Out(regs, "BusWrite", 0, <<>>)
           ELSE write_reg(regs, <<>>, Register.Minutes, dec_to_bsd(mins))
    ELSE Out(regs, "MinutesRange", 0, <<>>)

get_hours(regs, fail_at) ==
    IF fail_at = 1 THEN Out(regs, "BusRead", 0, <<>>)
    ELSE LET hours == read_reg(regs, Register.Hours)
             info  == extract_hour_info(hours)
         IN  Out(regs, "Ok",
                 CASE info = "H12PM" -> 12 + and8(hours, H12_MASK)
                   [] info = "H12AM" -> and8(hours, H12_MASK)
                   [] info = "H24"   -> bcd_to_dec(and8(hours, H24_MASK)),
                 <<>>)

set_hours(regs, hours, fail_at) ==
    IF ~(hours \in 0..23) THEN Out(regs, "HoursRange", 0, <<>>)
    ELSE IF fail_at = 1 THEN Out(regs, "BusRead", 0, <<>>)
    ELSE LET info  == extract_hour_info(read_reg(regs, Register.Hours))
             value == IF info \in {"H12PM", "H12AM"}
                        THEN BitOr(BitOr(H12_BIT, IF hours >= 12 THEN PM_BIT ELSE 0),
                                   hours % 12)
                      ELSE dec_to_bsd(hours)
         IN  IF fail_at = 2 THEN Out(regs, "BusWrite", 0, <<>>)
             ELSE write_reg(regs, <<>>, Register.Hours, value)

\* get_date reads Register::Days
get_date(regs, fail_at) ==
    IF fail_at = 1 THEN Out(regs, "BusRead", 0, <<>>)
    ELSE Out(regs, "Ok", bcd_to_dec(read_reg(regs, Register.Days)), <<>>)

\* (0..31).contains(&date): the range without its upper end
set_date(regs, date, fail_at) ==
    IF date \in 0..30
      THEN IF fail_at = 1 THEN Out(regs, "BusWrite", 0, <<>>)
           ELSE write_reg(regs, <<>>, Register.Date, dec_to_bsd(date))
    ELSE Out(regs, "DateRange", 0, <<>>)

get_month(regs, fail_at) ==
    IF fail_at = 1 THEN Out(regs, "BusRead", 0, <<>>)
    ELSE Out(regs, "Ok", and8(read_reg(regs, Register.Month), MONTH_MASK), <<>>)

\* the register is read before the range is tested; (1..12).contains(&month)
\* is the range without its upper end
set_month(regs, month, fail_at) ==
    IF fail_at = 1 THEN Out(regs, "BusRead", 0, <<>>)
    ELSE LET century_bit == and8(read_reg(regs, Register.Month), CENTURY_BIT)
         IN  IF month \in 1..11
               THEN IF fail_at = 2 THEN Out(regs, "BusWrite", 0, <<>>)
                    ELSE write_reg(regs, <<>>, Register.Month, BitOr(month, century_bit))
             ELSE Out(regs, "MonthRange", 0, <<>>)

get_year(regs, fail_at) ==
    IF fail_at = 1 \/ fail_at = 2 THEN Out(regs, "BusRead", 0, <<>>)
    ELSE LET century_bit == and8(read_reg(regs, Register.Month), CENTURY_BIT)
             y           == read_reg(regs, Register.Year)
         IN  Out(regs, "Ok",
                 bcd_to_dec(y) + (IF century_bit # 0 THEN 100 ELSE 0) + YEAR_OFFSET, <<>>)

set_year(regs, year, fail_at) ==
    IF year \in 1900..2099
      THEN IF fail_at = 1 THEN Out(regs, "BusRead", 0, <<>>)
           ELSE LET y         == (year - YEAR_OFFSET) % 256
                    month_reg == BitOr(and8(read_reg(regs, Register.Month), not8(CENTURY_BIT)),
                                       IF y >= 100 THEN CENTURY_BIT ELSE 0)
                    first     == write_reg(regs, <<>>, Register.Month, month_reg)
                IN  IF fail_at = 2 THEN Out(regs, "BusWrite", 0, <<>>)
                    ELSE IF fail_at = 3
                      THEN [first EXCEPT !.result = "BusWrite"]
                    ELSE write_reg(first.regs, first.writes, Register.Year,
                                   dec_to_bsd(y % 100))
    ELSE Out(regs, "YearRange", 0, <<>>)

\* the setters and the getters, each by the name of its field
Fields == {"secs", "mins", "hours", "date", "month", "year"}

setter(field, regs, arg, fail_at) ==
    CASE field = "secs"  -> set_secs(regs, arg, fail_at)
      [] field = "mins"  -> set_mins(regs, arg, fail_at)
      [] field = "hours" -> set_hours(regs, arg, fail_at)
      [] field = "date"  -> set_date(regs, arg, fail_at)
      [] field = "month" -> set_month(regs, arg, fail_at)
      [] field = "year"  -> set_year(regs, arg, fail_at)

getter(field, regs, fail_at) ==
    CASE field = "secs"  -> get_secs(regs, fail_at)
      [] field = "mins"  -> get_mins(regs, fail_at)
      [] field = "hours" -> get_hours(regs, fail_at)
      [] field = "date"  -> get_date(regs, fail_at)
      [] field = "month" -> get_month(regs, fail_at)
      [] field = "year"  -> get_year(regs, fail_at)

\* one call of a setter
ds_set(field, arg, fail_at) ==
    /\ UNCHANGED notDs
    /\ LET out == setter(field, ds_regs, arg, fail_at)
       IN  /\ ds_regs' = out.regs
           /\ ds_ret' = Some([op |-> "set", field |-> field, arg |-> arg,
                              bus_failed |-> out.result \in {"BusRead", "BusWrite"},
                              result |-> out.result, value |-> out.value,
                              writes |-> out.writes])

\* one call of a getter
ds_get(field, fail_at) ==
    /\ UNCHANGED notDs
    /\ LET out == getter(field, ds_regs, fail_at)
       IN  /\ ds_regs' = out.regs
           /\ ds_ret' = Some([op |-> "get", field |-> field, arg |-> 0,
                              bus_failed |-> out.result \in {"BusRead", "BusWrite"},
                              result |-> out.result, value |-> out.value,
                              writes |-> out.writes])

\* arguments around the ends of each calendar range, u8 (u16 for the year)
SetterArgs(field) ==
    CASE field = "secs"  -> {0, 59, 60}
      [] field = "mins"  -> {0, 59, 60}
      [] field = "hours" -> {0, 12, 23, 24}
      [] field = "date"  -> {0, 1, 30, 31, 32}
      [] field = "month" -> {0, 1, 11, 12, 13}
      [] field = "year"  -> {1899, 1900, 1999, 2000, 2099, 2100}

\* the bus transactions a setter and a getter make at most
SetterTransactions(field) ==
    CASE field \in {"secs", "mins", "date"} -> 1
      [] field \in {"hours", "month"}       -> 2
      [] field = "year"                     -> 3

GetterTransactions(field) == IF field = "year" THEN 2 ELSE 1

\* the Hours register of a chip in 24 hour mode (00 and 23 o'clock) and in
\* 12 hour mode (12 AM and 11 PM)
HoursRegs == {0, 35, 64, 107}

\* the Month register of January with the century bit clear and set
MonthRegs == {1, 129}

DsInit ==
    /\ \E h \in HoursRegs, m \in MonthRegs :
          ds_regs = [reg \in 0..6 |-> CASE reg = Register.Hours -> h
                                        [] reg = Register.Month -> m
                                        [] reg \in {Register.Days, Register.Date} -> 1
                                        [] OTHER -> 0]
    /\ ds_ret = None

\* a chip at 00:00:00 on Sunday the 1st of January 1900, 24 hour mode
DsRest ==
    /\ ds_regs = [reg \in 0..6 |-> IF reg \in {Register.Days, Register.Date, Register.Month}
                                     THEN 1 ELSE 0]
    /\ ds_ret = None

DsNext ==
    \/ \E field \in Fields :
          \E arg \in SetterArgs(field), fail_at \in 0..SetterTransactions(field) :
             ds_set(field, arg, fail_at)
    \/ \E field \in Fields :
          \E fail_at \in 0..GetterTransactions(field) : ds_get(field, fail_at)

(***************************************************************************)
(* MenuOption and LedMode walked by left and right                         *)
(***************************************************************************)
\* the values of MenuOption (MenuOption::all)
MenuOptions == {"SetTime", "SetAlarm", "SetRgb", "SetBrightness", "TempHumidity", "Return"}

\* a walk that has not moved yet
Walk_new(v) == [start |-> v, cur |-> v, dir |-> "none", steps |-> 0, seen |-> {v}]

\* one more step of a walk, to the value `next`
Walk_step(w, dir, next) ==
    [w EXCEPT !.cur = next, !.dir = dir, !.steps = @ + 1, !.seen = @ \cup {next}]

\* MenuOption::left / MenuOption::right applied to the value the walk is at
MenuOption_walk(dir) ==
    /\ UNCHANGED notWalk
    /\ menu_walk.dir \in {"none", dir}
    /\ menu_walk.steps < Cardinality(MenuOptions)
    /\ menu_walk' = Walk_step(menu_walk, dir,
                              IF dir = "left" THEN MenuOption_left(menu_walk.cur)
                              ELSE MenuOption_right(menu_walk.cur))
    /\ UNCHANGED led_walk

\* LedMode::left / LedMode::right applied to the value the walk is at
LedMode_walk(dir) ==
    /\ UNCHANGED notWalk
    /\ led_walk.dir \in {"none", dir}
    /\ led_walk.steps < Len(LedModes)
    /\ led_walk' = Walk_step(led_walk, dir,
                             IF dir = "left" THEN LedMode_left(led_walk.cur)
                             ELSE LedMode_right(led_walk.cur))
    /\ UNCHANGED menu_walk

WalkInit ==
    /\ \E m \in MenuOptions : menu_walk = Walk_new(m)
    /\ \E k \in 1..Len(LedModes) : led_walk = Walk_new(LedModes[k])

\* the first MenuOption and LedMode::default(), not walked
WalkRest ==
    /\ menu_walk = Walk_new("SetTime")
    /\ led_walk = Walk_new("Sin")

WalkNext ==
    \/ MenuOption_walk("left")
    \/ MenuOption_walk("right")
    \/ LedMode_walk("left")
    \/ LedMode_walk("right")

(***************************************************************************)
(* Specifications                                                          *)
(***************************************************************************)
\* the display driver as constructed with all lines high and brightness 0
DispRest ==
    /\ DispInit
    /\ csa1 = "High" /\ csa2 = "High" /\ csa3 = "High" /\ dc = "High"
    /\ brightness = 0

InitBus == BusInit /\ DispRest /\ LedInit /\ ColRest /\ DivRest /\ StRest /\ BtnRest /\ DsRest /\ WalkRest

InitDisp == BusInit /\ DispInit /\ LedInit /\ ColRest /\ DivRest /\ StRest /\ BtnRest /\ DsRest /\ WalkRest

InitLed == BusInit /\ DispRest /\ LedInit /\ ColRest /\ DivRest /\ StRest /\ BtnRest /\ DsRest /\ WalkRest

InitCol == BusInit /\ DispRest /\ LedInit /\ ColInit /\ DivRest /\ StRest /\ BtnRest /\ DsRest /\ WalkRest

InitGl == BusInit /\ DispRest /\ LedInit /\ ColRest /\ DivRest /\ StRest /\ BtnRest /\ DsRest /\ WalkRest

InitDiv == BusInit /\ DispRest /\ LedInit /\ ColRest /\ DivInit /\ StRest /\ BtnRest /\ DsRest /\ WalkRest

InitSt == BusInit /\ DispRest /\ LedInit /\ ColRest /\ DivRest /\ StInit /\ BtnRest /\ DsRest /\ WalkRest

InitBtn == BusInit /\ DispRest /\ LedInit /\ ColRest /\ DivRest /\ StRest /\ BtnInit /\ DsRest /\ WalkRest

InitDs == BusInit /\ DispRest /\ LedInit /\ ColRest /\ DivRest /\ StRest /\ BtnRest /\ DsInit /\ WalkRest

InitWalk == BusInit /\ DispRest /\ LedInit /\ ColRest /\ DivRest /\ StRest /\ BtnRest /\ DsRest /\ WalkInit

\* the arbiter alone; the other components rest
SpecBus == InitBus /\ [][BusNext]_vars

\* the display driver alone
SpecDisp == InitDisp /\ [][DispNext]_vars

\* the LED driver and the state machine it starts
SpecLed == InitLed /\ [][LedNext]_vars

\* the same with the two processors making progress: the CPU goes on with the
\* loop of display (no preemption, no other exit from the loop), and the state
\* machine, once started, executes an instruction whenever it is not stalled
SpecLedFair == InitLed /\ [][LedFairNext]_vars /\ WF_vars(tx_write) /\ WF_vars(pio_exec)

\* the colour conversion applied to every input colour
SpecCol == InitCol /\ [][ColNext]_vars

\* the drawing helpers, every display write made through them
SpecGl == InitGl /\ [][GlNext]_vars

\* the clock divider applied to clocks over the whole u32 range
SpecDiv == InitDiv /\ [][DivNext]_vars

\* the application state machine driven by button events
SpecSt == InitSt /\ [][StNext]_vars

\* one button sampled with every sequence of pin levels
SpecBtn == InitBtn /\ [][BtnNext]_vars

\* the calendar calls of the DS3231 driver on a chip in either hour mode
SpecDs == InitDs /\ [][DsNext]_vars

\* MenuOption and LedMode walked by left and by right from every value
SpecWalk == InitWalk /\ [][WalkNext]_vars

(***************************************************************************)
(* Properties                                                              *)
(***************************************************************************)
BothParked(dev) == i2c_bus # None /\ Slot(dev) # None

\* C1 as stated: after any with_rtc / with_humidity_sensor call returns
\* (success, I2CClaim, or an error of the operation) the bus handle and the
\* device state are both parked.
C1_AnyReturnParksBoth ==
    ret # None => BothParked(ret[1].dev)

\* C1 amended: after a call that checked out returns, whether its operation
\* returned Ok or an error, the bus handle and the device state are both
\* parked; a call that fails with I2CClaim returns with the slots as it found
\* them, at least one of them absent.
C1_CheckedOutReturnParksBoth ==
    ret # None =>
        IF ret[1].result.tag = "Ok"
        THEN BothParked(ret[1].dev)
        ELSE /\ i2c_bus = ret[1].bus_at_call
             /\ Slot(ret[1].dev) = ret[1].state_at_call
             /\ ~BothParked(ret[1].dev)

C1_Witness ==
    /\ ret # None
    /\ ret[1].result.tag = "Ok"
    /\ ret[1].result.inner.tag = "Err"
    /\ BothParked(ret[1].dev)

\* C2: a with_* call made while the operation of another with_* call runs
\* returns I2CClaim at once: no transaction happens between its call and its
\* return and its operation is not invoked.
C2_ReentrantCallFails ==
    (ret # None /\ ret[1].nested) =>
        /\ ret[1].result = OuterI2CClaim
        /\ ret[1].xfer_at_ret = ret[1].xfer_at_call
        /\ ret[1].op_result = NoInner

C2_Witness ==
    /\ ret # None
    /\ ret[1].nested
    /\ ret[1].result = OuterI2CClaim
    /\ stack # <<>>
    /\ n_xfer > 0

AddrOf(dev) == IF dev = "rtc" THEN 104 ELSE 118

\* C3: at most one transient driver exists at any time, every I2C
\* transaction is made by that one driver at its own device's address, the
\* slots of the holder are empty while it holds the bus, and a second
\* checkout returns an error (it does not wait).
C3_MutualExclusion ==
    /\ Len(stack) <= 1
    /\ stack # <<>> => (i2c_bus = None /\ Slot(stack[1].dev) = None)
    /\ last_xfer # None =>
          /\ Len(last_xfer[1].holders) = 1
          /\ last_xfer[1].addr = AddrOf(last_xfer[1].holders[1])
    /\ (ret # None /\ ret[1].nested) => ret[1].result.tag = "Err"

C3_Witness ==
    /\ stack # <<>>
    /\ stack[1].dev = "humidity_sensor"
    /\ last_xfer # None
    /\ last_xfer[1].addr = 118
    /\ ret # None
    /\ ret[1].nested
    /\ ret[1].dev = "rtc"

\* C4: a with_* call returns an error exactly when the bus handle or the
\* device state was absent when it was called; the error is I2CClaim and the
\* operation was not invoked.
C4_ErrorIffAbsent ==
    ret # None =>
        /\ ret[1].result.tag = "Err" <=>
              (ret[1].bus_at_call = None \/ ret[1].state_at_call = None)
        /\ ret[1].result.tag = "Err" =>
              /\ ret[1].result.err = "I2CClaim"
              /\ ret[1].op_result = NoInner
              /\ ret[1].xfer_at_ret = ret[1].xfer_at_call

C4_Witness ==
    /\ ret # None
    /\ ret[1].result = OuterI2CClaim
    /\ ret[1].bus_at_call # None
    /\ ret[1].state_at_call = None

\* C5: a call that checked out hands back exactly what the operation
\* returned inside the outer Ok: Ok stays Ok with the same value, an error of
\* the operation stays that error and is never turned into I2CClaim.
C5_ResultPassedThrough ==
    (ret # None /\ ret[1].bus_at_call # None /\ ret[1].state_at_call # None) =>
        /\ ret[1].result.tag = "Ok"
        /\ ret[1].result.err = ""
        /\ ret[1].result.inner = ret[1].op_result
        /\ ret[1].op_result.tag \in {"Ok", "Err"}

C5_Witness ==
    /\ ret # None
    /\ ret[1].result.tag = "Ok"
    /\ ret[1].result.inner = [tag |-> "Err", val |-> "BusRead"]
    /\ ret[1].op_result = [tag |-> "Err", val |-> "BusRead"]

\* position of a panel, D1 = 1 .. D6 = 6
PanelNo(d) == CHOOSE k \in 1..6 : Display_all[k] = d

LevelBit(l) == IF l = "High" THEN 1 ELSE 0

Recombine(lines) == LevelBit(lines[1]) + 2 * LevelBit(lines[2]) + 4 * LevelBit(lines[3])

Selecting == disp_pc \in {"init_display", "pixels", "iter_header", "iter_loop",
                          "iter_flush", "iter_tail"}

\* C6: the select code is the reversed table D1->5 .. D6->0, injective and
\* onto 0..5, and the three line states of a panel (on the operator and on the
\* pins while the panel is selected) recombine to that code.
C6_SelectCodeTable ==
    /\ \A d \in Displays : into_cs_value(d) = 6 - PanelNo(d)
    /\ \A d, e \in Displays : into_cs_value(d) = into_cs_value(e) => d = e
    /\ {into_cs_value(d) : d \in Displays} = 0..5
    /\ \A d \in Displays : Recombine(into_cs_states(d)) = into_cs_value(d)
    /\ Selecting => Recombine(CsLines) = 6 - PanelNo(Target)

C6_Witness ==
    /\ disp_pc = "pixels"
    /\ Target = "D1"
    /\ CsLines = <<"High", "Low", "High">>

BE16(v) == << v \div 256, v % 256 >>

RegionOps == {"set_pixels", "set_pixels_iter", "legacy_set_pixel"}

\* C7 as stated: the data after CASET is the big-endian (x0+52, x1+52) and
\* the data after RASET the big-endian (y0+40, y1+40).
C7_EndOffsetSameAsStart ==
    disp_op.name \in RegionOps =>
        /\ Len(spi_log) >= 2 =>
              spi_log[2].bytes = BE16(disp_op.x_start + 52) \o BE16(disp_op.x_end + 52)
        /\ Len(spi_log) >= 4 =>
              spi_log[4].bytes = BE16(disp_op.y_start + 40) \o BE16(disp_op.y_end + 40)

\* C7 amended: set_region of drivers/st7789vwx6.rs emits after CASET the
\* big-endian (x0+52, x1+51) and after RASET the big-endian (y0+40, y1+39);
\* set_region of the earlier src/st7789vwx6.rs emits (x0+52, x1+52) and
\* (y0+40, y1+40).
C7_EndOffsetOneLess ==
    disp_op.name \in RegionOps =>
        LET e == IF disp_op.name = "legacy_set_pixel" THEN 0 ELSE 1
        IN  /\ Len(spi_log) >= 1 => (spi_log[1].bytes = <<42>> /\ spi_log[1].dc = "Low")
            /\ Len(spi_log) >= 2 =>
                  /\ spi_log[2].dc = "High"
                  /\ spi_log[2].bytes = BE16(disp_op.x_start + 52)
                                        \o BE16(disp_op.x_end + 52 - e)
            /\ Len(spi_log) >= 3 => (spi_log[3].bytes = <<43>> /\ spi_log[3].dc = "Low")
            /\ Len(spi_log) >= 4 =>
                  /\ spi_log[4].dc = "High"
                  /\ spi_log[4].bytes = BE16(disp_op.y_start + 40)
                                        \o BE16(disp_op.y_end + 40 - e)

C7_Witness ==
    /\ disp_op.name = "set_pixels"
    /\ disp_op.x_end = MaxCoord
    /\ Len(spi_log) >= 4
    /\ spi_log[2].bytes = <<0, 55>> \o BE16(MaxCoord + 51)
    /\ spi_log[2].bytes[3] > 0

AllHigh == <<"High", "High", "High">>

\* C8: when init, set_pixels or set_pixels_iter has returned, with Ok or with
\* BusWrite, the three chip-select lines are high.
C8_DeselectedAfterReturn ==
    (disp_ret # None /\ disp_op.name \in {"init", "set_pixels", "set_pixels_iter"}) =>
        CsLines = AllHigh

C8_Witness ==
    /\ disp_ret = Some("BusWrite")
    /\ disp_op.name = "set_pixels_iter"
    /\ Len(spi_log) > 5
    /\ CsLines = AllHigh

\* lines of the select code 6 - n of panel number n
CodeLines(d) ==
    LET c == 6 - PanelNo(d)
    IN  << IF c % 2 = 1 THEN "High" ELSE "Low",
           IF (c \div 2) % 2 = 1 THEN "High" ELSE "Low",
           IF (c \div 4) % 2 = 1 THEN "High" ELSE "Low" >>

\* C9: every SPI write of the display driver is made while the chip-select
\* lines carry the code of the panel the operation addresses, and the lines
\* keep that code from the selection to the last write of the operation.
C9_WritesUnderSelect ==
    /\ \A k \in 1..Len(spi_log) : spi_log[k].cs = CodeLines(spi_log[k].panel)
    /\ Selecting => CsLines = CodeLines(Target)

C9_Witness ==
    /\ disp_op.name = "set_pixels"
    /\ disp_op.display = "D3"
    /\ Len(spi_log) >= 6
    /\ spi_log[6].cs = <<"High", "High", "Low">>

RECURSIVE PayloadFrom(_, _)
\* the bytes of the writes k, k+1, .. of the log, in order
PayloadFrom(log, k) ==
    IF k > Len(log) THEN <<>> ELSE log[k].bytes \o PayloadFrom(log, k + 1)

\* C10: a successful set_pixels / set_pixels_iter has written exactly: CASET
\* and 4 data bytes, RASET and 4 data bytes, RAMWR, then the pixel payload
\* (the colour bytes it was given) and nothing else.
C10_ExactFraming ==
    (disp_ret = Some("Ok") /\ disp_op.name \in {"set_pixels", "set_pixels_iter"}) =>
        /\ Len(spi_log) >= 5
        /\ spi_log[1].dc = "Low"  /\ spi_log[1].bytes = <<42>>
        /\ spi_log[2].dc = "High" /\ Len(spi_log[2].bytes) = 4
        /\ spi_log[3].dc = "Low"  /\ spi_log[3].bytes = <<43>>
        /\ spi_log[4].dc = "High" /\ Len(spi_log[4].bytes) = 4
        /\ spi_log[5].dc = "Low"  /\ spi_log[5].bytes = <<44>>
        /\ \A k \in 6..Len(spi_log) : spi_log[k].dc = "High"
        /\ PayloadFrom(spi_log, 6) = disp_op.colors

\* C11: a successful set_pixels_iter has transmitted after RAMWR exactly the
\* bytes of its colour sequence, in order, no more and no fewer, whatever the
\* length of the sequence; a solid red sequence of 100 pixels gives exactly
\* 200 payload bytes alternating 0xF8, 0x00.
C11_IterPayloadIsColours ==
    (disp_ret = Some("Ok") /\ disp_op.name = "set_pixels_iter") =>
        /\ Len(spi_log) >= 5
        /\ spi_log[5].bytes = <<RAMWR>>
        /\ Len(PayloadFrom(spi_log, 6)) = Len(disp_op.colors)
        /\ PayloadFrom(spi_log, 6) = disp_op.colors
        /\ Len(disp_op.colors) = 200 =>
              PayloadFrom(spi_log, 6) = [k \in 1..200 |-> IF k % 2 = 1 THEN 248 ELSE 0]

\* opcodes of enum Command
CommandCodes == {MADCTL, COLMOD, PORCTRL, GCTRL, VCOMS, LCMCTRL, VDVVRHEN, VRHS, VDVS,
                 FRCTRL2, PWCTRL1, PVGAMCTRL, NVGAMCTRL, INVON, SLPOUT, DISPON,
                 CASET, RASET, RAMWR}

\* the k-th SPI write of the running operation carries an opcode: in the 29
\* writes of a panel's initialisation the first of each of the 13
\* command/parameter pairs and the 3 parameterless commands at the end; in a
\* region write CASET, RASET and RAMWR, the 1st, 3rd and 5th write
OpcodeAt(k) ==
    IF disp_op.name = "init"
    THEN LET p == ((k - 1) % 29) + 1 IN (p <= 26 /\ p % 2 = 1) \/ p >= 27
    ELSE k \in {1, 3, 5}

\* C12: every SPI write that carries an opcode is made with the D/C line low,
\* every SPI write that carries parameters or pixel payload with the D/C line
\* high; the line has that level when the bytes are written and keeps it until
\* the next write.
C12_DcMatchesKind ==
    /\ \A k \in 1..Len(spi_log) :
          IF OpcodeAt(k)
          THEN /\ spi_log[k].dc = "Low"
               /\ Len(spi_log[k].bytes) = 1
               /\ spi_log[k].bytes[1] \in CommandCodes
          ELSE spi_log[k].dc = "High"
    /\ spi_log # <<>> => dc = spi_log[Len(spi_log)].dc

C12_Witness ==
    /\ disp_op.name = "init"
    /\ Len(spi_log) >= 29
    /\ spi_log[26].dc = "High" /\ Len(spi_log[26].bytes) = 14
    /\ spi_log[27].dc = "Low"  /\ spi_log[27].bytes = <<INVON>>
    /\ spi_log[28].dc = "Low"  /\ spi_log[28].bytes = <<SLPOUT>>

\* SPI writes of the running / last operation that failed
FailedWrites == {k \in 1..Len(spi_log) : ~spi_log[k].ok}

\* C13: when an SPI write fails during init, set_pixels or set_pixels_iter,
\* the operation returns BusWrite and the failed write is its last SPI write:
\* it is not retried and the remaining commands, payload chunks and panels are
\* skipped. BusWrite is returned for no other reason.
C13_FailedWriteEndsOperation ==
    /\ \A k \in FailedWrites :
          /\ k = Len(spi_log)
          /\ disp_pc = "returned"
          /\ disp_ret = Some("BusWrite")
          /\ todo = <<>> /\ panels = <<>> /\ iter_rest = <<>>
    /\ disp_ret = Some("BusWrite") => FailedWrites = {Len(spi_log)}
    /\ disp_ret = Some("Ok") => FailedWrites = {}

\* init fails on the first write to the second panel: 30 writes, not 174
C13_Witness ==
    /\ disp_op.name = "init"
    /\ disp_ret = Some("BusWrite")
    /\ Len(spi_log) = 30
    /\ spi_log[30].panel = "D2"
    /\ ~spi_log[30].ok

\* the number a u32 below 2^31 stands for
U32Value(w) == ((w[1] * 256 + w[2]) * 256 + w[3]) * 256 + w[4]

SampleBytes == {0, 1, 127, 128, 255}

\* C14: the word display(r, g, b) builds is (g << 24) | (r << 16) | (b << 8):
\* green in the top byte, then red, then blue, the low byte zero;
\* display(0xFF, 0x00, 0x80) builds 0x00FF8000. Stated on the word of the
\* running call and, where display is about to be called, on the word it
\* would build for sample arguments.
C14_WordIsGreenRedBlue ==
    /\ led_pc \in {"display", "returned"} =>
          /\ led_word = <<led_args.g, led_args.r, led_args.b, 0>>
          /\ led_word[4] = 0
          /\ led_args = [r |-> 255, g |-> 0, b |-> 128] => U32Value(led_word) = 16744448
    /\ (led_pc = "idle" /\ n_calls = 0) =>
          \A r, g, b \in SampleBytes : display_word(r, g, b) = <<g, r, b, 0>>

C14_Witness ==
    /\ led_pc = "display"
    /\ led_args = [r |-> 255, g |-> 0, b |-> 128]
    /\ led_word = <<0, 255, 128, 0>>
    /\ tx_fifo # <<>>
    /\ tx_fifo[Len(tx_fifo)] = <<0, 255, 128, 0>>

\* C15: a display call puts exactly led_count words into the transmit queue,
\* all equal to the packed colour word; a write made while the queue is full
\* is refused, leaves the queue as it was and is repeated in the same turn of
\* the loop with the same word; a write made while there is room appends the
\* word once and ends the turn.
C15_ExactlyLedCountWords ==
    /\ led_pc \in {"display", "returned"} =>
          /\ Len(accepted) = led_i
          /\ led_i <= led_count
          /\ \A k \in 1..Len(accepted) :
                accepted[k] = <<led_args.g, led_args.r, led_args.b, 0>>
    /\ led_pc = "display" => led_i < led_count
    /\ led_pc = "returned" => Len(accepted) = led_count
    /\ last_write # None =>
          LET w == last_write[1]
          IN  /\ w.word = <<led_args.g, led_args.r, led_args.b, 0>>
              /\ IF Len(w.before) >= TX_FIFO_DEPTH
                 THEN ~w.ok /\ w.after = w.before /\ led_i = w.i /\ led_pc = "display"
                 ELSE w.ok /\ w.after = Append(w.before, w.word) /\ led_i = w.i + 1

\* the queue is full of words of this call and the next write has been refused
C15_Witness ==
    /\ led_pc = "display"
    /\ last_write # None
    /\ ~last_write[1].ok
    /\ Len(tx_fifo) = TX_FIFO_DEPTH
    /\ Len(accepted) = TX_FIFO_DEPTH
    /\ led_i = TX_FIFO_DEPTH

\* C16: for a system clock c at or above the bit frequency B = 8,000,000 Hz
\* the divider satisfies int + frac/256 <= c/B < int + (frac+1)/256, that is
\* int*B <= c < (int+1)*B and frac*B <= 256*(c - int*B) < (frac+1)*B, with
\* int >= 1 and frac in 0..255; for c = 125,000,000 int = 15 and frac = 160.
C16_DividerWithinOne256th ==
    (new_ret # None /\ new_ret[1].tag = "Ok" /\ new_ret[1].clock_freq >= 8000000) =>
        LET c == new_ret[1].clock_freq
            i == new_ret[1].int
            f == new_ret[1].frac
        IN  /\ i >= 1
            /\ f \in 0..255
            /\ i * 8000000 <= c
            /\ c - i * 8000000 < 8000000
            /\ f * 8000000 <= 256 * (c - i * 8000000)
            /\ 256 * (c - i * 8000000) < (f + 1) * 8000000
            /\ c = 125000000 => (i = 15 /\ f = 160)

C16_Witness ==
    /\ new_ret # None
    /\ new_ret[1].tag = "Ok"
    /\ new_ret[1].clock_freq = 125000000
    /\ new_ret[1].int = 15
    /\ new_ret[1].frac = 160

\* C17: when the integer divider computed from the system clock is zero, new
\* returns an error and the state machine has not been started.
C17_ZeroDividerFails ==
    (new_ret # None /\ new_ret[1].clock_freq \div 8000000 = 0) =>
        /\ new_ret[1].tag = "Err"
        /\ ~sm_started

\* C18: every bit cell takes exactly T1 + T2 + T3 = 10 cycles from wrap_target
\* back to wrap_target, for a 0 bit (through do_zero and the wrap) and for a 1
\* bit (through the jump): 3 cycles to the first jump, 2 more to the branch,
\* 5 in the branch.
C18_TenCyclesPerBit ==
    /\ CYCLES_PER_BIT = 10
    /\ last_bit # None => last_bit[1].cycles = 10
    /\ pio_pc = 0 => bit_cycles = 0
    /\ pio_pc = 1 => bit_cycles = 3
    /\ pio_pc \in {2, 3} => bit_cycles = 5
    /\ (pio_pc = 2 => pio_x = 1) /\ (pio_pc = 3 => pio_x = 0)

\* a 0 bit has just been completed through the wrap, a 1 bit was sent before it
C18_Witness ==
    /\ last_bit = Some([bit |-> 0, cycles |-> 10])
    /\ pio_pc = 0
    /\ \E k \in 1..Len(sent_bits) : sent_bits[k] = 1

\* C19: the RGB565 value built from an RGB8 colour is
\* ((r >> 3) << 11) | ((g >> 2) << 5) | (b >> 3): the top 5 bits of red, the
\* top 6 of green, the top 5 of blue in disjoint fields of a 16 bit value; it is
\* serialised high byte first; pure red (0xFF, 0, 0) gives 0xF8, 0x00.
C19_Rgb565Layout ==
    /\ col_rgb565 # None =>
          LET v == col_rgb565[1]
          IN  /\ v \in 0..65535
              /\ v = (col_rgb8.r \div 8) * 2048 + (col_rgb8.g \div 4) * 32 + (col_rgb8.b \div 8)
              /\ v \div 2048 = col_rgb8.r \div 8
              /\ (v \div 32) % 64 = col_rgb8.g \div 4
              /\ v % 32 = col_rgb8.b \div 8
    /\ col_be # None =>
          /\ Len(col_be[1]) = 2
          /\ col_be[1][1] = col_rgb565[1] \div 256
          /\ col_be[1][2] = col_rgb565[1] % 256
          /\ col_rgb8 = [r |-> 255, g |-> 0, b |-> 0] => col_be[1] = <<248, 0>>

C19_Witness ==
    /\ col_rgb8 = [r |-> 255, g |-> 0, b |-> 0]
    /\ col_rgb565 = Some(63488)
    /\ col_be = Some(<<248, 0>>)

\* C20: a call of set_brightness(v) sets the stored brightness and the PWM
\* duty to v and returns; it leaves the three chip-select lines, the D/C line
\* and the reset line as they were and makes no SPI write.
C20_BrightnessOnly ==
    [][ (disp_pc = "idle" /\ disp_op'.name = "set_brightness") =>
           /\ brightness' = disp_op'.duty
           /\ bl_duty' = disp_op'.duty
           /\ disp_ret' = Some("unit")
           /\ UNCHANGED <<csa1, csa2, csa3, dc, rst_log, spi_log, todo>>
           /\ spi_log' = <<>> ]_vars

\* set_brightness has returned with a panel still selected by the board's
\* reset levels and D/C low
C20_Witness ==
    /\ disp_op.name = "set_brightness"
    /\ disp_op.duty = 65535
    /\ disp_ret = Some("unit")
    /\ brightness = 65535
    /\ bl_duty = 65535
    /\ CsLines = <<"Low", "High", "Low">>
    /\ dc = "Low"
    /\ spi_log = <<>>

\* the six panels left to right
PanelOrder == <<"D1", "D2", "D3", "D4", "D5", "D6">>

\* opcodes of the per-panel init sequence, in the order they are sent
InitOpcodes == <<54, 58, 178, 183, 187, 192, 194, 195, 196, 198, 208, 224, 225, 33, 17, 41>>

RECURSIVE OpcodesFrom(_, _, _)
\* opcodes carried by the writes k..n of the log
OpcodesFrom(log, k, n) ==
    IF k > n THEN <<>>
    ELSE (IF log[k].dc = "Low" THEN log[k].bytes ELSE <<>>) \o OpcodesFrom(log, k + 1, n)

\* C21: init drives the reset line high, low, high exactly once, before its
\* first SPI write; the writes then come in blocks of 29, the k-th block
\* addressed to the k-th of D1..D6 under that panel's select code and carrying
\* the init sequence; after a block, until the next panel is selected, the
\* select lines are all high; a
\* successful init has written exactly the six blocks.
C21_ResetThenPanelsInOrder ==
    disp_op.name = "init" =>
        /\ rst_log = <<"High", "Low", "High">>
        /\ \A k \in 1..Len(spi_log) :
              /\ (k - 1) \div 29 < 6
              /\ spi_log[k].panel = PanelOrder[((k - 1) \div 29) + 1]
              /\ spi_log[k].cs = CodeLines(spi_log[k].panel)
        /\ \A n \in 1..6 :
              Len(spi_log) >= 29 * n =>
                  OpcodesFrom(spi_log, 29 * (n - 1) + 1, 29 * n) = InitOpcodes
        /\ disp_pc = "init_loop" =>
              /\ spi_log # <<>> => CsLines = AllHigh
              /\ Len(spi_log) % 29 = 0
              /\ Len(panels) = 6 - (Len(spi_log) \div 29)
        /\ disp_pc = "init_display" => Target = PanelOrder[7 - Len(panels)]
        /\ disp_ret = Some("Ok") => Len(spi_log) = 6 * 29

C21_Witness ==
    /\ disp_op.name = "init"
    /\ disp_ret = Some("Ok")
    /\ rst_log = <<"High", "Low", "High">>
    /\ Len(spi_log) = 174
    /\ spi_log[1].panel = "D1"
    /\ spi_log[174].panel = "D6"
    /\ spi_log[174].bytes = <<DISPON>>

\* C23: in set_pixels_iter the index i is 0 whenever the loop (re)starts, so
\* the bytes it stores go to buf[0..=255]; i reaches 256 exactly when a full
\* buffer is handed to send_data and is 0 again after that write; the final
\* write happens with 0 < i < 256 and an exhausted sequence; every payload
\* write carries at most 256 bytes, and after n full buffers 256 * n bytes of
\* the sequence have been consumed.
C23_BufferIndexInBounds ==
    disp_op.name = "set_pixels_iter" =>
        /\ buf_i \in 0..BUF_LEN
        /\ \A k \in 6..Len(spi_log) : Len(spi_log[k].bytes) <= 256
        /\ disp_pc \in {"iter_header", "iter_loop"} => (buf_i = 0 /\ Len(buf) = 256)
        /\ disp_pc = "iter_loop" =>
              Len(disp_op.colors) - Len(iter_rest) = 256 * (Len(spi_log) - 5)
        /\ disp_pc = "iter_flush" =>
              /\ buf_i = 256
              /\ Len(todo) = 1 /\ todo[1].bytes = buf
              /\ Len(disp_op.colors) - Len(iter_rest) = 256 * (Len(spi_log) - 4)
        /\ disp_pc = "iter_tail" =>
              /\ buf_i \in 1..255
              /\ iter_rest = <<>>
              /\ Len(disp_op.colors) = 256 * (Len(spi_log) - 5) + buf_i
        /\ disp_ret = Some("Ok") =>
              Len(spi_log) - 5 = (Len(disp_op.colors) + 255) \div 256

\* a sequence longer than the buffer: one full buffer sent, the rest stored
C23_Witness ==
    /\ disp_op.name = "set_pixels_iter"
    /\ Len(disp_op.colors) > 256
    /\ disp_pc = "iter_tail"
    /\ buf_i = MaxPayload - 256
    /\ Len(spi_log) = 6
    /\ Len(spi_log[6].bytes) = 256

\* the 16 bit big-endian value at bytes k, k+1 of a write
BE16At(bytes, k) == bytes[k] * 256 + bytes[k + 1]

\* pixels of the end-inclusive address window the CASET and RASET parameters
\* (writes 2 and 4 of the log) put on the wire
WindowPixels(log) ==
    (BE16At(log[2].bytes, 3) - BE16At(log[2].bytes, 1) + 1)
    * (BE16At(log[4].bytes, 3) - BE16At(log[4].bytes, 1) + 1)

\* pixels the caller's iterator generates, two bytes each
PixelsGenerated == Len(disp_op.colors) \div 2

\* C22 as stated: for every call Gl::fill / Gl::draw_rect makes with
\* x_min <= x_max and y_min <= y_max, the pixels generated are as many as the
\* window on the wire holds.
C22_PixelsFillWindowAnyRect ==
    (/\ disp_op.name = "set_pixels_iter"
     /\ Len(spi_log) >= 4
     /\ disp_op.x_start <= disp_op.x_end
     /\ disp_op.y_start <= disp_op.y_end) =>
        PixelsGenerated = WindowPixels(spi_log)

\* C22 amended: the same for rectangles on the panel, x_min <= x_max <= 135
\* and y_min <= y_max <= 240 (the full-panel fill included): the pixels
\* generated, (x_max - x_min) * (y_max - y_min), are as many as the
\* end-inclusive window (x_min+52 .. x_max+51) x (y_min+40 .. y_max+39) holds.
C22_PixelsFillWindowOnPanel ==
    (/\ disp_op.name = "set_pixels_iter"
     /\ Len(spi_log) >= 4
     /\ disp_op.x_start <= disp_op.x_end /\ disp_op.x_end <= 135
     /\ disp_op.y_start <= disp_op.y_end /\ disp_op.y_end <= 240) =>
        /\ PixelsGenerated = WindowPixels(spi_log)
        /\ PixelsGenerated = (disp_op.x_end - disp_op.x_start)
                              * (disp_op.y_end - disp_op.y_start)
        /\ Len(disp_op.colors) = 2 * PixelsGenerated

\* the right edge of draw_bounding_rect: 2 x 238 = 476 pixels for the window
\* 185..186 x 42..279
C22_Witness ==
    /\ disp_op.name = "set_pixels_iter"
    /\ disp_op.x_start = 133 /\ disp_op.y_start = 2
    /\ disp_op.x_end = 135 /\ disp_op.y_end = 240
    /\ PixelsGenerated = 476
    /\ Len(spi_log) >= 4
    /\ spi_log[2].bytes = <<0, 185, 0, 186>>
    /\ spi_log[4].bytes = <<0, 42, 1, 23>>

\* C24: with the state machine draining the queue, a display call that is
\* running returns, and a write refused by a full queue is followed by an
\* accepted write; display has no outcome other than returning.
C24_DisplayTerminates ==
    /\ (led_pc = "display") ~> (led_pc = "returned")
    /\ (last_write # None /\ ~last_write[1].ok) ~> (last_write # None /\ last_write[1].ok)

\* display has returned from more turns than the queue has places, with the
\* queue full: the last word went in after the state machine had made room
C24_Witness ==
    /\ led_pc = "returned"
    /\ led_count = MaxLedCount
    /\ led_count > TX_FIFO_DEPTH
    /\ Len(accepted) = MaxLedCount
    /\ Len(tx_fifo) = TX_FIFO_DEPTH

\* the 8 bits of a byte, most significant first
ByteBits(v) == [k \in 1..8 |-> (v \div (2 ^ (8 - k))) % 2]

\* the 24 bits an LED takes for a colour: green, red, blue
Expected24(col) == ByteBits(col[2]) \o ByteBits(col[1]) \o ByteBits(col[3])

\* the state machine takes a word from the queue in this step
Pulls == tx_fifo # <<>> /\ tx_fifo' = Tail(tx_fifo)

\* C25: of each word taken from the queue the state machine shifts out 24
\* bits and no more, most significant first: the 8 bits of green, of red and
\* of blue of a colour display was called with. A word is taken only when no
\* word has been shifted yet or all 24 bits of the last one have, and the
\* first bit shifted then is bit 31 of the word taken, so the low byte of a
\* word never reaches the line.
C25_TwentyFourBitsMsbFirst ==
    /\ [](/\ Len(sent_bits) <= 24
          /\ sent_bits # <<>> =>
                /\ osr_count = Len(sent_bits)
                /\ \E col \in LedColors :
                      sent_bits = SubSeq(Expected24(col), 1, Len(sent_bits)))
    /\ [][Pulls => /\ Len(sent_bits) \in {0, 24}
                   /\ sent_bits' = << Head(tx_fifo)[1] \div 128 >>
                   /\ Head(tx_fifo)[4] = 0]_vars

\* all 24 bits of display(255, 0, 128) are out, 0x00 0xFF 0x80, what is left
\* of the word in the OSR is its low byte, and the next word waits in the queue
C25_Witness ==
    /\ sent_bits = Expected24(<<255, 0, 128>>)
    /\ Len(sent_bits) = 24
    /\ sent_bits[9] = 1 /\ sent_bits[8] = 0 /\ sent_bits[17] = 1 /\ sent_bits[18] = 0
    /\ osr = <<0, 0, 0, 0>>
    /\ tx_fifo # <<>>

\* C26 as stated: the line is high for the 3 cycles of the shift, low from
\* there on for the 7 remaining cycles of a zero bit, and high at the end of a
\* one bit.
C26_LineHighWhileShifting ==
    /\ pio_pc = 1 => (pin = 1 /\ bit_cycles = 3)
    /\ pio_pc = 3 => pin = 0
    /\ (last_bit # None /\ last_bit[1].bit = 0) => (pin = 0 /\ last_bit[1].cycles = 3 + 7)
    /\ (last_bit # None /\ last_bit[1].bit = 1) => pin = 1

\* C26, amended: the line is low for the 3 cycles of the shift (out, side 0),
\* then high for 2 cycles whatever the bit (jmp !x, side 1), then for 5 cycles
\* low for a zero bit (nop, side 0) and high for a one bit (jmp, side 1); the
\* zero branch is taken exactly when the bit shifted is 0.
C26_LineLowWhileShifting ==
    /\ pio_pc = 1 => (pin = 0 /\ bit_cycles = 3)
    /\ pio_pc \in {2, 3} => (pin = 1 /\ bit_cycles = 3 + 2 /\ (pio_pc = 3 <=> pio_x = 0))
    /\ last_bit # None =>
          /\ pio_pc = 0
          /\ pin = last_bit[1].bit
          /\ last_bit[1].cycles = 3 + 2 + 5
          /\ last_bit[1].bit = sent_bits[Len(sent_bits)]

\* a zero bit has just been finished with the line low, after a one bit of
\* the same word
C26_Witness ==
    /\ last_bit # None
    /\ last_bit[1].bit = 0
    /\ pin = 0
    /\ Len(sent_bits) >= 2
    /\ sent_bits[Len(sent_bits) - 1] = 1

\* C27: the state parked by the check-in is the state the operation left in
\* the driver. So every device state, parked or checked out, carries the
\* address init gave it and every transaction goes to that address; and once
\* hardware init has returned Ok the sensor state, parked or checked out,
\* holds calibration data, so that no read_params ends in NotInitialized.
C27_StateKeptAcrossCheckouts ==
    /\ [](/\ rtc # None => rtc[1].addr = AddrOf("rtc")
          /\ humidity_sensor # None => humidity_sensor[1].addr = AddrOf("humidity_sensor")
          /\ \A k \in 1..Len(stack) : stack[k].state.addr = AddrOf(stack[k].dev)
          /\ last_xfer # None =>
                last_xfer[1].addr = AddrOf(last_xfer[1].holders[Len(last_xfer[1].holders)])
          /\ init_ret = Some("Ok") =>
                /\ humidity_sensor # None => humidity_sensor[1].compensator # None
                /\ \A k \in 1..Len(stack) :
                      /\ stack[k].dev = "humidity_sensor" =>
                            stack[k].state.compensator # None
                      /\ stack[k].res # Some(OpErr("NotInitialized"))
                /\ ret # None => ret[1].op_result # OpErr("NotInitialized"))
    /\ [][Len(stack') < Len(stack) =>
            LET f == stack[Len(stack)]
            IN  (IF f.dev = "rtc" THEN rtc' ELSE humidity_sensor') = Some(f.state)]_vars

\* after a hardware init that returned Ok, a later checkout of the sensor
\* has run read_params to its end and handed back the measurements
C27_Witness ==
    /\ init_ret = Some("Ok")
    /\ ret # None
    /\ ret[1].dev = "humidity_sensor"
    /\ ~ret[1].by_init
    /\ ret[1].op_result = OpOk("params")
    /\ ret[1].state_at_call = Some([addr |-> 118, compensator |-> Some("calibration")])
    /\ humidity_sensor = ret[1].state_at_call

\* C28: for every u32 system clock neither int * bit_freq nor rem * 256
\* leaves the u32 range (rem is below bit_freq = 8,000,000, so rem * 256 is
\* below 2^31), int * bit_freq + rem is the clock, and the casts lose nothing:
\* int is below 2^16 and frac below 2^8.
C28_DividerFitsWidths ==
    /\ div_steps # None =>
          LET d  == div_steps[1]
              lo == d.prod[2] + d.rem[2]
              hi == d.prod[1] + d.rem[1] + (lo \div 256)
          IN  /\ ~d.overflow
              /\ ~wraps(d.prod)
              /\ ~wraps(d.scaled)
              /\ d.rem[1] < 31250
              /\ <<hi, lo % 256>> = div_clock
              /\ d.int < 65536
              /\ d.frac < 256
    /\ div_ret # None =>
          /\ div_ret[1].int = div_steps[1].int
          /\ div_ret[1].frac = div_steps[1].frac

\* the largest u32, 4,294,967,295 Hz: int = 536, rem = 6,967,295, frac = 222
C28_Witness ==
    /\ div_clock = <<16777215, 255>>
    /\ div_ret = Some([int |-> 536, frac |-> 222])
    /\ div_steps # None
    /\ val(div_steps[1].rem) = 6967295

\* C29: a handle_buttons call in SetTime or SetAlarm, the mode button being
\* held during the call (pressed in it, or down before it and not released in
\* it): a release of left or right records the delta -1 or +1 for the current
\* screen index, sets the flag and stays; without one the flag is the one the
\* press has cleared. A call that releases the mode button stays in the mode
\* when the flag is set, and returns to Regular when it is not, which is the
\* case after a press with no release of left or right since.
C29_DeltaWhileModeHeld ==
    [][mode.tag \in {"SetTime", "SetAlarm"} =>
       \A me \in ButtonEvents, le \in ButtonEvents, re \in ButtonEvents :
         handle_buttons(me, le, re) =>
            LET held == me = "Press" \/ (me = "None" /\ is_mode_down)
                lr   == le = "Release" \/ re = "Release"
            IN  /\ (held /\ lr) =>
                      /\ time_delta' = Some(<<mode.index, IF le = "Release" THEN -1 ELSE 1>>)
                      /\ lr_pressed_while_mode_down'
                      /\ is_mode_down'
                      /\ mode' = mode
                /\ (held /\ ~lr) =>
                      /\ lr_pressed_while_mode_down' =
                            (me # "Press" /\ lr_pressed_while_mode_down)
                      /\ time_delta' = time_delta
                      /\ mode' = mode
                /\ (me = "Release" /\ lr_pressed_while_mode_down) =>
                      /\ mode'.tag = mode.tag
                      /\ ~is_mode_down'
                /\ (me = "Release" /\ ~lr_pressed_while_mode_down) =>
                      mode' = AppMode("Regular", "Time", "-", 0)]_vars

\* SetAlarm at screen index 11: right was released while the mode button was
\* held, the delta +1 for index 11 is recorded, the mode button has been
\* released since and the mode is still SetAlarm
C29_Witness ==
    /\ mode = AppMode("SetAlarm", "-", "-", 11)
    /\ last_mode = mode
    /\ time_delta = Some(<<11, 1>>)
    /\ lr_pressed_while_mode_down
    /\ ~is_mode_down

\* C30: started with a brightness level within 0..10, State holds a level
\* within 0..10 after every sequence of button events; in SetBrightness a
\* release of left takes one off down to 0 and a release of right leads to at
\* most 9, never to more than the level before plus one.
C30_BrightnessInRange ==
    /\ [](state_brightness \in 0..10)
    /\ [][mode.tag = "SetBrightness" =>
          \A me \in ButtonEvents, le \in ButtonEvents, re \in ButtonEvents :
            handle_buttons(me, le, re) =>
               /\ le = "Release" =>
                     state_brightness' = IF state_brightness = 0 THEN 0
                                         ELSE state_brightness - 1
               /\ (le # "Release" /\ re = "Release") =>
                     /\ state_brightness' <= 9
                     /\ state_brightness' <= state_brightness + 1
               /\ (le # "Release" /\ re # "Release") =>
                     state_brightness' = state_brightness]_vars

\* in SetBrightness at the level 9 that right leads to, reached from 8 by a
\* release of right
C30_Witness ==
    /\ mode.tag = "SetBrightness"
    /\ last_mode.tag = "SetBrightness"
    /\ state_brightness = 9
    /\ n_events >= 6

\* C31: a with_rtc / with_humidity_sensor call that returns Err(I2CClaim)
\* leaves the bus handle, the RTC state and the sensor state as they were
\* before the call, and the operation has not run: no driver was built, no
\* transaction was made, and the call carries no result of the operation.
C31_FailedCheckoutTouchesNothing ==
    [][(ret' # None /\ ret'[1].result = OuterI2CClaim) =>
          /\ i2c_bus' = i2c_bus
          /\ rtc' = rtc
          /\ humidity_sensor' = humidity_sensor
          /\ stack' = stack
          /\ n_xfer' = n_xfer
          /\ last_xfer' = last_xfer
          /\ ret'[1].op_result = NoInner
          /\ ret'[1].bus_at_call = i2c_bus
          /\ (i2c_bus = None \/ (IF ret'[1].dev = "rtc" THEN rtc ELSE humidity_sensor) = None)]_vars

\* with_rtc called from inside a with_humidity_sensor closure has failed: the
\* bus is out, and the RTC state is still parked
C31_Witness ==
    /\ ret # None
    /\ ret[1].result = OuterI2CClaim
    /\ ret[1].dev = "rtc"
    /\ ret[1].nested
    /\ i2c_bus = None
    /\ rtc # None
    /\ stack # <<>>
    /\ Top.dev = "humidity_sensor"

\* C32: handle_buttons never aborts: no mode reached from the initial state
\* by button events takes it into an unimplemented arm.
C32_HandleButtonsNeverAborts == ~panicked

C34_LowPinNeverPresses ==
    (all_low /\ debounce.max >= 1) =>
        /\ ~is_pressed(debounce)
        /\ emitted = <<>>
        /\ button_ret = "None"

\* C35: the events Button::update returns over any sequence of pin samples
\* alternate Press, Release, Press, ... and the first one is Press.
C35_EventsAlternate ==
    /\ \A k \in 1..Len(emitted) :
          emitted[k] = IF k % 2 = 1 THEN "Press" ELSE "Release"
    /\ button_ret # "None" => (emitted # <<>> /\ emitted[Len(emitted)] = button_ret)
    /\ button_state = IF Len(emitted) % 2 = 1 THEN "Pressed" ELSE "Released"

C35_Witness ==
    /\ Len(emitted) >= 3
    /\ button_ret = "Press"
    /\ debounce.max >= 2

\* C36: the screen index of SetTime and of SetAlarm stays within 0..=11
\* under every sequence of button events; with the mode button up, a release
\* of right leads from 11 to 0 and otherwise one up, a release of left leads
\* from 0 to 11 and otherwise one down, and a release of right after a
\* release of left leads back to the index before the two.
C36_ScreenIndexWraps ==
    /\ [](mode.tag \in {"SetTime", "SetAlarm"} => mode.index \in 0..11)
    /\ [][(mode.tag \in {"SetTime", "SetAlarm"} /\ ~is_mode_down) =>
          \A le \in ButtonEvents, re \in ButtonEvents :
            handle_buttons("None", le, re) =>
               /\ mode'.tag = mode.tag
               /\ le = "Release" =>
                     /\ mode'.index = IF mode.index = 0 THEN 11 ELSE mode.index - 1
                     /\ handle_buttons_on(Self', "None", "None", "Release").mode = mode
               /\ (le # "Release" /\ re = "Release") =>
                     /\ mode'.index = IF mode.index = 11 THEN 0 ELSE mode.index + 1
                     /\ handle_buttons_on(Self', "None", "Release", "None").mode = mode
               /\ (le # "Release" /\ re # "Release") => mode' = mode]_vars

\* in SetTime on screen 11, reached from screen 0 by a release of left
C36_Witness ==
    /\ mode = AppMode("SetTime", "-", "-", 11)
    /\ last_mode = AppMode("SetTime", "-", "-", 0)
    /\ transition
    /\ ~is_mode_down

\* C37: for MenuOption and for LedMode, left and right are inverse
\* permutations of the values, and repeated steps of right (and of left)
\* from any value visit every other value before they return to the start:
\* one cycle of length 6 for MenuOption, of length 8 for LedMode.
C37_LeftRightSingleCycle ==
    /\ MenuOption_left(MenuOption_right(menu_walk.cur)) = menu_walk.cur
    /\ MenuOption_right(MenuOption_left(menu_walk.cur)) = menu_walk.cur
    /\ LedMode_left(LedMode_right(led_walk.cur)) = led_walk.cur
    /\ LedMode_right(LedMode_left(led_walk.cur)) = led_walk.cur
    /\ Cardinality(MenuOptions) = 6
    /\ Len(LedModes) = 8
    /\ menu_walk.seen \subseteq MenuOptions
    /\ led_walk.seen \subseteq {LedModes[k] : k \in 1..8}
    /\ (menu_walk.cur = menu_walk.start) = (menu_walk.steps \in {0, 6})
    /\ (led_walk.cur = led_walk.start) = (led_walk.steps \in {0, 8})
    /\ Cardinality(menu_walk.seen) = IF menu_walk.steps < 6 THEN menu_walk.steps + 1 ELSE 6
    /\ Cardinality(led_walk.seen) = IF led_walk.steps < 8 THEN led_walk.steps + 1 ELSE 8

\* both walks back at their start: MenuOption after six steps of right,
\* LedMode after eight steps of left
C37_Witness ==
    /\ menu_walk.dir = "right" /\ menu_walk.steps = 6
    /\ menu_walk.cur = menu_walk.start /\ menu_walk.seen = MenuOptions
    /\ led_walk.dir = "left" /\ led_walk.steps = 8
    /\ led_walk.cur = led_walk.start /\ Cardinality(led_walk.seen) = 8

\* the calendar range of each field and the error that names it
CalendarRange(field) ==
    CASE field = "secs"  -> 0..59
      [] field = "mins"  -> 0..59
      [] field = "hours" -> 0..23
      [] field = "date"  -> 1..31
      [] field = "month" -> 1..12
      [] field = "year"  -> 1900..2099

RangeError(field) ==
    CASE field = "secs"  -> "SecondsRange"
      [] field = "mins"  -> "MinutesRange"
      [] field = "hours" -> "HoursRange"
      [] field = "date"  -> "DateRange"
      [] field = "month" -> "MonthRange"
      [] field = "year"  -> "YearRange"

\* C38: a DS3231 setter writes a register only when its argument is within
\* the calendar range of the field (seconds and minutes 0..=59, hours 0..=23,
\* date 1..=31, month 1..=12, year 1900..=2099); on a working bus it accepts
\* every value within the range, and returns the range error of the field,
\* without writing, for every value outside.
C38_SettersCheckRange ==
    (ds_ret # None /\ ds_ret[1].op = "set") =>
        LET c       == ds_ret[1]
            inrange == c.arg \in CalendarRange(c.field)
        IN  /\ c.writes # <<>> => inrange
            /\ (inrange /\ ~c.bus_failed) => (c.result = "Ok" /\ c.writes # <<>>)
            /\ (~inrange /\ ~c.bus_failed) => (c.result = RangeError(c.field) /\ c.writes = <<>>)

\* C39: a getter called right after the matching setter has returned Ok
\* returns the value that was set: seconds, minutes, hours (chip in 24 hour
\* and in 12 hour mode), date, month and year.
C39_GetReturnsWhatWasSet ==
    [][(/\ ds_ret # None /\ ds_ret[1].op = "set" /\ ds_ret[1].result = "Ok"
        /\ ds_ret'[1].op = "get" /\ ds_ret'[1].field = ds_ret[1].field
        /\ ds_ret'[1].result = "Ok")
          => ds_ret'[1].value = ds_ret[1].arg]_vars

\* C40: for the r, g, b of a pixel, the two bytes convert_rgb8_to_rgb565
\* writes for the pixel are the big-endian bytes of
\* ColorRGB565::from(ColorRGB8 { r, g, b }): the build-time and the runtime
\* conversion agree.
C40_BuildAgreesWithRuntime ==
    col_built # None =>
        /\ Len(col_built[1]) = 4
        /\ SubSeq(col_built[1], 1, 2) = to_be(ColorRGB565_from(col_rgb8))
        /\ SubSeq(col_built[1], 3, 4) =
              to_be(ColorRGB565_from([r |-> 255 - col_rgb8.r, g |-> 255 - col_rgb8.g,
                                      b |-> 255 - col_rgb8.b]))
        /\ col_be # None => SubSeq(col_built[1], 1, 2) = col_be[1]

\* a colour with different bits in every field, converted at build time and
\* at run time
C40_Witness ==
    /\ col_rgb8 = [r |-> 255, g |-> 4, b |-> 8]
    /\ col_built = Some(<<248, 33, 7, 222>>)
    /\ col_be = Some(<<248, 33>>)

====
